---- MODULE Spec2Model ----
(***************************************************************************)
(* sohappy: a terminal-sharing relay.  A producer (the CLI, or a daemon     *)
(* owning several sessions) captures a tmux pane and streams it through a   *)
(* relay server to viewers, who may take a control lock and send keys back. *)
(*                                                                          *)
(* The relay's socket handlers, the producer-side clients (EncryptedWSClient*)
(* with the CLI main, WSClient, DaemonManager), TmuxCapture and the viewer  *)
(* page are modelled as actions over the program's state.  Connections are  *)
(* FIFO queues of messages in both directions.                              *)
(***************************************************************************)
EXTENDS Integers, Sequences, FiniteSets, TLC

(* ------------------------------------------------------------------ *)
(* Bounds of the model                                                 *)
(* ------------------------------------------------------------------ *)
MaxSockets == 3        \* connections the relay accepts in one run
ControlTicks == 2      \* clock ticks in a run about the control lock
MaxPages == 2          \* viewer pages
MaxFrames == 2         \* frames a capture emits in a run of the model
MaxRuns == 2           \* runs of the CLI process
MaxKeys == 1           \* keystrokes the pages send
ReapTicks == 5         \* clock ticks in a run about the reaper
RingFrames == 102      \* frames a producer sends in a run about the history rings
CaptureFrames == 4     \* frames a TmuxCapture emits in a run of direct calls
MaxCommands == 2       \* POST /api/daemon/command requests in a run
MaxResponses == 1      \* cli-response messages that name one command
CommandTicks == 3      \* clock ticks in a run about the daemon commands
EnvelopeKeys == 3      \* key pairs whose shared secrets seal and open envelopes
MaxClicks == 1         \* messages a page has on its way to the relay at a time
MaxQueue == 1          \* messages on their way to a page beyond which no button is clicked
MaxAttaches == 2       \* sessions the daemon attaches in a run

(* ------------------------------------------------------------------ *)
(* Program constants                                                   *)
(* ------------------------------------------------------------------ *)
CONTROL_LOCK_TIMEOUT == 30000
REAP_DELAY == 60000
HISTORY_MAX == 100
COMMAND_TIMEOUT == 10000

\* The clock advances in steps of half the lock timeout.
TickMs == CONTROL_LOCK_TIMEOUT \div 2

(* ------------------------------------------------------------------ *)
(* Values                                                              *)
(* ------------------------------------------------------------------ *)
Null == [null |-> TRUE]            \* JavaScript null / undefined for objects
NoSocket == 0                      \* a null socket id
NoKey == <<>>                      \* an absent public key: undefined, null or ''
NoNick == "anonymous"              \* an absent nickname
NoSecret == ""                     \* an absent userSecret

\* tweetnacl-util encodeBase64 / decodeBase64 of a byte string
encodeBase64(bytes) == <<"b64", bytes>>
decodeBase64(str) == str[2]

publicKeyToBase64(key) == encodeBase64(key)
publicKeyFromBase64(base64) == decodeBase64(base64)

\* createHash('sha256').update(userSecret).digest('hex')
deriveUserId(userSecret) == <<"sha256", userSecret>>
NullUser == <<>>
UserIdOf(userSecret) == IF userSecret # NoSecret THEN deriveUserId(userSecret) ELSE NullUser

(* ------------------------------------------------------------------ *)
(* State                                                               *)
(* ------------------------------------------------------------------ *)
VARIABLES
  sessions,      \* relay: Map sessionId -> Session (as the id of a Session object)
  objs,          \* relay: the Session objects, by object id
  sockets,       \* relay: the open connections and what their handlers captured
  cliDaemons,    \* relay: Map socketId -> CLIDaemon
  userSessions,  \* relay: Map userId -> Set of sessionIds
  timers,        \* relay: pending reaping timeouts
  pendingCommands, \* relay: Map commandId -> the pending daemon command and its timeout
  now,           \* Date.now()
  nextSock,      \* the next fresh socket.id
  emitted,       \* what the last relay handler emitted, in program order
  idleSince,     \* history: since when each session has had no producer and no viewers
  capture,       \* producer: the TmuxCapture of the CLI process
  wsClient,      \* producer: the EncryptedWSClient of the CLI process
  pages,         \* the viewer pages
  toRelay,       \* per connection, the messages on their way to the relay
  toClient,      \* per connection, the messages on their way to the client
  injected,      \* the keys sent to the tmux pane, in order
  got,           \* history: per page, the frames the relay delivered to it
  owed,          \* history: the frames the producer emitted while a viewer was paired
  keysIn,        \* history: the inputs the producer decrypted and parsed
  joinSeq,       \* history: per page, the producer's last seq when the page joined
  typed,         \* history: how many keystrokes the pages have sent
  handed,        \* history: the OutputEvents the TmuxCapture has handed to its callback
  lastCall,      \* history: the last call a direct caller made on a component
  commandLog,    \* history: per POST /api/daemon/command, its responses and what the caller got
  daemonManager  \* the DaemonManager of a CLI in daemon mode, with the tmux server it drives

relayVars == <<sessions, objs, sockets, cliDaemons, userSessions, timers, now, nextSock, emitted>>
cmdVars == <<pendingCommands, commandLog, daemonManager>>
endVars == <<capture, wsClient, pages, toRelay, toClient, injected, got, owed, keysIn, joinSeq, typed,
             handed, lastCall>>
vars == <<sessions, objs, sockets, cliDaemons, userSessions, timers, now, nextSock, emitted, idleSince,
          capture, wsClient, pages, toRelay, toClient, injected, got, owed, keysIn, joinSeq, typed,
          handed, lastCall, pendingCommands, commandLog, daemonManager>>

(* ------------------------------------------------------------------ *)
(* Relay helpers                                                       *)
(* ------------------------------------------------------------------ *)
Emit(targets, ev, data) == [to |-> targets, ev |-> ev, data |-> data]

\* the socket.io room `session:${sessionId}` over a set of open sockets
RoomOf(socks, sid) ==
  {k \in DOMAIN socks : socks[k].clientType # "cli-daemon" /\ socks[k].sessionId = sid}
Room(sid) == RoomOf(sockets, sid)

\* the room named by a socket id: that socket, if it is open
Own(id) == {id} \cap DOMAIN sockets

\* the connections the relay accepts: one more once the CLI process has been restarted,
\* so that the restarted producer can be joined by a viewer that saw the first one
SocketLimit == MaxSockets + (wsClient.run - 1)

NewSession(sid, userId, cliPublicKey, daemonSocketId, encrypted) ==
  [id |-> sid, userId |-> userId, cliSocketId |-> NoSocket, cliPublicKey |-> cliPublicKey,
   daemonSocketId |-> daemonSocketId, viewers |-> <<>>, lastOutput |-> Null,
   outputHistory |-> <<>>, encryptedHistory |-> <<>>, encrypted |-> encrypted,
   controlLock |-> Null, createdAt |-> now]

\* an object id no Session object uses
FreshObj == CHOOSE o \in 1..(Cardinality(DOMAIN objs) + 1) : o \notin DOMAIN objs

\* Session objects that are still reachable: in the directory or captured by a handler
Reachable(sess, socks) ==
  {sess[s] : s \in DOMAIN sess} \cup {socks[k].obj : k \in DOMAIN socks}
Collect(os, sess, socks) == [o \in (DOMAIN os \cap Reachable(sess, socks)) |-> os[o]]

MapPut(f, k, v) == [x \in DOMAIN f \cup {k} |-> IF x = k THEN v ELSE f[x]]
MapDel(f, k) == [x \in DOMAIN f \ {k} |-> f[x]]

ControlStatus(session) ==
  IF session.controlLock # Null
  THEN [locked |-> TRUE, holderId |-> session.controlLock.holderId,
        holderNickname |-> session.controlLock.holderNickname,
        acquiredAt |-> session.controlLock.acquiredAt]
  ELSE [locked |-> FALSE]

broadcastControlStatus(room, session) == Emit(room, "control-status", ControlStatus(session))

CliStatus(connected, publicKey, encrypted) ==
  [connected |-> connected, publicKey |-> publicKey, encrypted |-> encrypted]

(* ------------------------------------------------------------------ *)
(* Relay: io.on('connection') for a CLI or a viewer                    *)
(* ------------------------------------------------------------------ *)
SocketRec(clientType, sid, obj, publicKey, nickname, userId) ==
  [clientType |-> clientType, sessionId |-> sid, obj |-> obj, publicKey |-> publicKey,
   nickname |-> nickname, userId |-> userId]

\* the session the connection finds or creates, and the user's session list
SessionFor(sid, clientType, userId) ==
  IF sid \in DOMAIN sessions
  THEN objs[sessions[sid]]
  ELSE NewSession(sid, IF clientType = "cli" THEN userId ELSE NullUser, NoKey, NoSocket, FALSE)

ObjFor(sid) == IF sid \in DOMAIN sessions THEN sessions[sid] ELSE FreshObj

UserSessionsAdd(userId, sid) ==
  IF userId # NullUser
  THEN MapPut(userSessions, userId,
              (IF userId \in DOMAIN userSessions THEN userSessions[userId] ELSE {}) \cup {sid})
  ELSE userSessions

\* POST /api/user/sessions: the ids of the sessions in the list it returns
UserSessionsList(userSecret) ==
  LET userId == deriveUserId(userSecret)
      sessionIds == IF userId \in DOMAIN userSessions THEN userSessions[userId] ELSE {}
  IN {id \in sessionIds : id \in DOMAIN sessions}

\* a producer connects: clientType = 'cli'
CliConnect(sid, publicKey, userSecret) ==
  /\ nextSock <= SocketLimit
  /\ LET id == nextSock
         userId == UserIdOf(userSecret)
         o == ObjFor(sid)
         session == [SessionFor(sid, "cli", userId) EXCEPT
                       !.cliSocketId = id,
                       !.cliPublicKey = publicKey,
                       !.encrypted = (publicKey # NoKey)]
         socks == MapPut(sockets, id, SocketRec("cli", sid, o, publicKey, NoNick, userId))
     IN /\ sockets' = socks
        /\ sessions' = MapPut(sessions, sid, o)
        /\ objs' = MapPut(objs, o, session)
        /\ userSessions' = IF sid \in DOMAIN sessions THEN userSessions
                           ELSE UserSessionsAdd(userId, sid)
        /\ emitted' = << Emit(RoomOf(socks, sid), "cli-status",
                              CliStatus(TRUE, session.cliPublicKey, session.encrypted)) >>
        /\ nextSock' = nextSock + 1
  /\ UNCHANGED <<cliDaemons, timers, now>>

\* a viewer connects: any other clientType
ViewerConnect(sid, publicKey, nickname, userSecret) ==
  /\ nextSock <= SocketLimit
  /\ LET id == nextSock
         userId == UserIdOf(userSecret)
         o == ObjFor(sid)
         s0 == SessionFor(sid, "viewer", userId)
         viewer == [socketId |-> id, publicKey |-> publicKey, nickname |-> nickname]
         session == [s0 EXCEPT !.viewers = MapPut(s0.viewers, id, viewer)]
         socks == MapPut(sockets, id, SocketRec("viewer", sid, o, publicKey, nickname, userId))
         joined == IF session.encrypted /\ session.cliSocketId # NoSocket /\ publicKey # NoKey
                   THEN << Emit({session.cliSocketId} \cap DOMAIN socks, "viewer-joined",
                                [viewerId |-> id, publicKey |-> publicKey]) >>
                   ELSE << >>
         replay == IF ~session.encrypted /\ session.lastOutput # Null
                   THEN << Emit({id}, "output", session.lastOutput) >>
                   ELSE << >>
     IN /\ sockets' = socks
        /\ sessions' = MapPut(sessions, sid, o)
        /\ objs' = MapPut(objs, o, session)
        /\ emitted' = joined \o replay \o
                      << Emit({id}, "cli-status",
                              CliStatus(session.cliSocketId # NoSocket, session.cliPublicKey,
                                        session.encrypted)),
                         broadcastControlStatus(RoomOf(socks, sid), session) >>
        /\ nextSock' = nextSock + 1
  /\ UNCHANGED <<cliDaemons, userSessions, timers, now>>

\* the handlers below belong to an open CLI or viewer socket k
IsSessionSocket(k) == k \in DOMAIN sockets /\ sockets[k].clientType # "cli-daemon"
SessOf(k) == objs[sockets[k].obj]
SetSess(k, session) == objs' = [objs EXCEPT ![sockets[k].obj] = session]
RelayNoOp == UNCHANGED <<sessions, objs, sockets, cliDaemons, userSessions, timers, now, nextSock>>
RelayOnly(k) == UNCHANGED <<sessions, sockets, cliDaemons, userSessions, timers, now, nextSock>>

(* ------------------------------------------------------------------ *)
(* Relay: control lock                                                 *)
(* ------------------------------------------------------------------ *)
\* a lock test that forgets the idle expiry
LockedByOtherForever(session, k) ==
  /\ session.controlLock # Null
  /\ session.controlLock.holderId # k

\* the lock is held by someone else and has seen input less than 30 s ago
LockedByOther(session, k) ==
  /\ session.controlLock # Null
  /\ now - session.controlLock.lastInputAt < CONTROL_LOCK_TIMEOUT
  /\ session.controlLock.holderId # k

\* socket.on('request-control')
RequestControl(k) ==
  /\ IsSessionSocket(k)
  /\ LET session == SessOf(k)
         sid == sockets[k].sessionId
     IN IF sockets[k].clientType = "cli" \/ k \notin DOMAIN session.viewers
        THEN /\ emitted' = << >>
             /\ UNCHANGED objs
        ELSE IF LockedByOther(session, k)
        THEN /\ emitted' = << Emit({k}, "control-denied",
                                   [reason |-> "locked",
                                    holderId |-> session.controlLock.holderId,
                                    holderNickname |-> session.controlLock.holderNickname]) >>
             /\ UNCHANGED objs
        ELSE LET granted == [session EXCEPT !.controlLock =
                               [holderId |-> k, holderNickname |-> session.viewers[k].nickname,
                                acquiredAt |-> now, lastInputAt |-> now]]
             IN /\ SetSess(k, granted)
                /\ emitted' = << broadcastControlStatus(Room(sid), granted) >>
  /\ RelayOnly(k)

\* a release that any viewer of the session may make
ReleaseControlAnyone(k) ==
  /\ IsSessionSocket(k)
  /\ LET session == SessOf(k)
         sid == sockets[k].sessionId
     IN IF sockets[k].clientType # "cli" /\ session.controlLock # Null
        THEN LET released == [session EXCEPT !.controlLock = Null]
             IN /\ SetSess(k, released)
                /\ emitted' = << broadcastControlStatus(Room(sid), released) >>
        ELSE /\ emitted' = << >>
             /\ UNCHANGED objs
  /\ RelayOnly(k)

\* socket.on('release-control')
ReleaseControl(k) ==
  /\ IsSessionSocket(k)
  /\ LET session == SessOf(k)
         sid == sockets[k].sessionId
     IN IF sockets[k].clientType # "cli" /\ session.controlLock # Null
           /\ session.controlLock.holderId = k
        THEN LET released == [session EXCEPT !.controlLock = Null]
             IN /\ SetSess(k, released)
                /\ emitted' = << broadcastControlStatus(Room(sid), released) >>
        ELSE /\ emitted' = << >>
             /\ UNCHANGED objs
  /\ RelayOnly(k)

(* ------------------------------------------------------------------ *)
(* Relay: output from the producer                                     *)
(* ------------------------------------------------------------------ *)
\* a push that never trims the ring
RingPushOnly(ring, entry) == Append(ring, entry)

\* push, then shift when the ring holds more than 100 entries
RingPush(ring, entry) ==
  LET pushed == Append(ring, entry)
  IN IF Len(pushed) > HISTORY_MAX THEN Tail(pushed) ELSE pushed

\* socket.on('output')
RelayOutput(k, event) ==
  /\ IsSessionSocket(k)
  /\ IF sockets[k].clientType # "cli"
     THEN /\ emitted' = << >>
          /\ UNCHANGED objs
     ELSE LET session == SessOf(k)
          IN /\ SetSess(k, [session EXCEPT !.lastOutput = event,
                                           !.outputHistory = RingPush(@, event)])
             /\ emitted' = << Emit(Room(sockets[k].sessionId) \ {k}, "output", event) >>
  /\ RelayOnly(k)

\* an encrypted-output handler that sends the frame to the whole session
RelayEncryptedOutputRoom(k, data) ==
  /\ IsSessionSocket(k)
  /\ emitted' = IF sockets[k].clientType # "cli" THEN << >>
                ELSE << Emit(Room(sockets[k].sessionId) \ {k}, "encrypted-output",
                             [encrypted |-> data.encrypted, seq |-> data.seq,
                              timestamp |-> data.timestamp]) >>
  /\ RelayNoOp

\* socket.on('encrypted-output')
RelayEncryptedOutput(k, data) ==
  /\ IsSessionSocket(k)
  /\ emitted' = IF sockets[k].clientType # "cli" THEN << >>
                ELSE << Emit(Own(data.viewerId), "encrypted-output",
                             [encrypted |-> data.encrypted, seq |-> data.seq,
                              timestamp |-> data.timestamp]) >>
  /\ RelayNoOp

\* socket.on('output-history')
RelayOutputHistory(k, data) ==
  /\ IsSessionSocket(k)
  /\ IF sockets[k].clientType # "cli"
     THEN UNCHANGED objs
     ELSE LET session == SessOf(k)
          IN SetSess(k, [session EXCEPT !.encryptedHistory =
                           RingPush(@, [viewerId |-> NoSocket, encrypted |-> data.encrypted,
                                        seq |-> data.seq, timestamp |-> data.timestamp])])
  /\ emitted' = << >>
  /\ RelayOnly(k)

\* a get-history handler that answers with the plaintext ring whatever the session
GetHistoryPlain(k) ==
  /\ IsSessionSocket(k)
  /\ emitted' = << Emit({k}, "history", SessOf(k).outputHistory) >>
  /\ RelayNoOp

\* socket.on('get-history')
GetHistory(k) ==
  /\ IsSessionSocket(k)
  /\ emitted' = IF SessOf(k).encrypted
                THEN << Emit({k}, "encrypted-history", SessOf(k).encryptedHistory) >>
                ELSE << Emit({k}, "history", SessOf(k).outputHistory) >>
  /\ RelayNoOp

(* ------------------------------------------------------------------ *)
(* Relay: input from viewers, gated by the control lock                *)
(* ------------------------------------------------------------------ *)
\* a gate that rejects only the holder's own idle lock: the comparison turned round
InputGateTurned(k, session, room) ==
  IF session.controlLock # Null /\ session.controlLock.holderId # k
  THEN IF now - session.controlLock.lastInputAt >= CONTROL_LOCK_TIMEOUT
       THEN [session |-> session, forward |-> FALSE,
             out |-> << Emit({k}, "input-rejected", [reason |-> "not-controller"]) >>]
       ELSE LET cleared == [session EXCEPT !.controlLock = Null]
            IN [session |-> cleared, forward |-> TRUE,
                out |-> << broadcastControlStatus(room, cleared) >>]
  ELSE IF session.controlLock # Null /\ session.controlLock.holderId = k
       THEN [session |-> [session EXCEPT !.controlLock.lastInputAt = now],
             forward |-> TRUE, out |-> << >>]
       ELSE [session |-> session, forward |-> TRUE, out |-> << >>]

\* a gate that lets the holder's input through without touching lastInputAt
InputGateForgets(k, session, room) ==
  IF session.controlLock # Null /\ session.controlLock.holderId # k
  THEN IF now - session.controlLock.lastInputAt < CONTROL_LOCK_TIMEOUT
       THEN [session |-> session, forward |-> FALSE,
             out |-> << Emit({k}, "input-rejected", [reason |-> "not-controller"]) >>]
       ELSE LET cleared == [session EXCEPT !.controlLock = Null]
            IN [session |-> cleared, forward |-> TRUE,
                out |-> << broadcastControlStatus(room, cleared) >>]
  ELSE [session |-> session, forward |-> TRUE, out |-> << >>]

\* the part input and encrypted-input share: the gate, then lastInputAt
\* result: the session after the gate, what the gate emitted, and whether to forward
InputGate(k, session, room) ==
  IF session.controlLock # Null /\ session.controlLock.holderId # k
  THEN IF now - session.controlLock.lastInputAt < CONTROL_LOCK_TIMEOUT
       THEN [session |-> session, forward |-> FALSE,
             out |-> << Emit({k}, "input-rejected", [reason |-> "not-controller"]) >>]
       ELSE LET cleared == [session EXCEPT !.controlLock = Null]
            IN [session |-> cleared, forward |-> TRUE,
                out |-> << broadcastControlStatus(room, cleared) >>]
  ELSE IF session.controlLock # Null /\ session.controlLock.holderId = k
       THEN [session |-> [session EXCEPT !.controlLock.lastInputAt = now],
             forward |-> TRUE, out |-> << >>]
       ELSE [session |-> session, forward |-> TRUE, out |-> << >>]

\* socket.on('input')
RelayInput(k, data) ==
  /\ IsSessionSocket(k)
  /\ IF sockets[k].clientType = "cli"
     THEN /\ emitted' = << >>
          /\ UNCHANGED objs
     ELSE LET gate == InputGate(k, SessOf(k), Room(sockets[k].sessionId))
              cli == gate.session.cliSocketId
          IN /\ SetSess(k, gate.session)
             /\ emitted' = gate.out \o
                  (IF ~gate.forward THEN << >>
                   ELSE IF cli # NoSocket THEN << Emit(Own(cli), "input", data) >>
                   ELSE << Emit({k}, "error", [message |-> "CLI not connected"]) >>)
  /\ RelayOnly(k)

\* socket.on('encrypted-input')
RelayEncryptedInput(k, data) ==
  /\ IsSessionSocket(k)
  /\ IF sockets[k].clientType = "cli"
     THEN /\ emitted' = << >>
          /\ UNCHANGED objs
     ELSE LET gate == InputGate(k, SessOf(k), Room(sockets[k].sessionId))
              cli == gate.session.cliSocketId
          IN /\ SetSess(k, gate.session)
             /\ emitted' = gate.out \o
                  (IF ~gate.forward THEN << >>
                   ELSE IF cli # NoSocket
                   THEN << Emit(Own(cli), "encrypted-input",
                                [viewerId |-> k, encrypted |-> data.encrypted]) >>
                   ELSE << Emit({k}, "error", [message |-> "CLI not connected"]) >>)
  /\ RelayOnly(k)

(* ------------------------------------------------------------------ *)
(* Relay: disconnect of a CLI or viewer socket, and the reaper         *)
(* ------------------------------------------------------------------ *)
\* a disconnect that also clears the control lock when the producer leaves
RelayDisconnectClearsLock(k) ==
  /\ IsSessionSocket(k)
  /\ LET session == SessOf(k)
         sid == sockets[k].sessionId
         room == Room(sid) \ {k}
         socks == MapDel(sockets, k)
         producer == sockets[k].clientType = "cli" /\ session.cliSocketId = k
         held == session.controlLock # Null /\ session.controlLock.holderId = k
         after == IF producer
                  THEN [session EXCEPT !.cliSocketId = NoSocket, !.cliPublicKey = NoKey,
                                       !.controlLock = Null]
                  ELSE [session EXCEPT
                          !.controlLock = IF held THEN Null ELSE @,
                          !.viewers = MapDel(@, k)]
         out == IF producer
                THEN << Emit(room, "cli-status", CliStatus(FALSE, NoKey, session.encrypted)) >>
                ELSE (IF held THEN << broadcastControlStatus(room, after) >> ELSE << >>)
                     \o (IF session.cliSocketId # NoSocket
                         THEN << Emit({session.cliSocketId} \cap DOMAIN socks, "viewer-left",
                                      [viewerId |-> k]) >>
                         ELSE << >>)
     IN /\ sockets' = socks
        /\ objs' = Collect([objs EXCEPT ![sockets[k].obj] = after], sessions, socks)
        /\ emitted' = out
        /\ timers' = timers \cup {[sessionId |-> sid, due |-> now + REAP_DELAY]}
  /\ UNCHANGED <<sessions, cliDaemons, userSessions, now, nextSock>>

\* socket.on('disconnect'); the socket has left its rooms by then
RelayDisconnect(k) ==
  /\ IsSessionSocket(k)
  /\ LET session == SessOf(k)
         sid == sockets[k].sessionId
         room == Room(sid) \ {k}
         socks == MapDel(sockets, k)
         producer == sockets[k].clientType = "cli" /\ session.cliSocketId = k
         held == session.controlLock # Null /\ session.controlLock.holderId = k
         after == IF producer
                  THEN [session EXCEPT !.cliSocketId = NoSocket, !.cliPublicKey = NoKey]
                  ELSE [session EXCEPT
                          !.controlLock = IF held THEN Null ELSE @,
                          !.viewers = MapDel(@, k)]
         out == IF producer
                THEN << Emit(room, "cli-status", CliStatus(FALSE, NoKey, session.encrypted)) >>
                ELSE (IF held THEN << broadcastControlStatus(room, after) >> ELSE << >>)
                     \o (IF session.cliSocketId # NoSocket
                         THEN << Emit({session.cliSocketId} \cap DOMAIN socks, "viewer-left",
                                      [viewerId |-> k]) >>
                         ELSE << >>)
     IN /\ sockets' = socks
        /\ objs' = Collect([objs EXCEPT ![sockets[k].obj] = after], sessions, socks)
        /\ emitted' = out
        /\ timers' = timers \cup {[sessionId |-> sid, due |-> now + REAP_DELAY]}
  /\ UNCHANGED <<sessions, cliDaemons, userSessions, now, nextSock>>

\* the setTimeout callback of the disconnect handler
ReapTimer(t) ==
  /\ t \in timers
  /\ now >= t.due
  /\ timers' = timers \ {t}
  /\ LET sid == t.sessionId
         reap == /\ sid \in DOMAIN sessions
                 /\ objs[sessions[sid]].cliSocketId = NoSocket
                 /\ DOMAIN objs[sessions[sid]].viewers = {}
         sess == IF reap THEN MapDel(sessions, sid) ELSE sessions
     IN /\ sessions' = sess
        /\ objs' = Collect(objs, sess, sockets)
  /\ emitted' = << >>
  /\ UNCHANGED <<sockets, cliDaemons, userSessions, now, nextSock>>

\* time passes; a timeout that is due runs first
Tick(limit) ==
  /\ now + TickMs <= limit * TickMs
  /\ \A t \in timers : t.due > now
  /\ now' = now + TickMs
  /\ emitted' = << >>
  /\ UNCHANGED <<sessions, objs, sockets, cliDaemons, userSessions, timers, nextSock>>

(* ------------------------------------------------------------------ *)
(* Relay: a daemon connection (clientType = 'cli-daemon')              *)
(* ------------------------------------------------------------------ *)
IsDaemonSocket(k) == k \in DOMAIN sockets /\ sockets[k].clientType = "cli-daemon"

DaemonConnect(userSecret) ==
  /\ nextSock <= SocketLimit
  /\ LET id == nextSock
         userId == UserIdOf(userSecret)
     IN /\ cliDaemons' = MapPut(cliDaemons, id,
                                [socketId |-> id, userId |-> userId, activeSessions |-> {},
                                 connectedAt |-> now])
        /\ sockets' = MapPut(sockets, id, SocketRec("cli-daemon", "", 0, NoKey, NoNick, userId))
        /\ nextSock' = nextSock + 1
  /\ emitted' = << >>
  /\ UNCHANGED <<sessions, objs, userSessions, timers, now>>

\* socket.on('session-attached')
SessionAttached(k, data) ==
  /\ IsDaemonSocket(k)
  /\ LET sid == data.sessionId
         userId == sockets[k].userId
         o == ObjFor(sid)
         session == IF sid \in DOMAIN sessions
                    THEN [objs[o] EXCEPT !.daemonSocketId = k,
                                         !.cliPublicKey = data.publicKey,
                                         !.encrypted = data.encrypted]
                    ELSE NewSession(sid, userId, data.publicKey, k, data.encrypted)
     IN /\ cliDaemons' = [cliDaemons EXCEPT ![k].activeSessions = @ \cup {sid}]
        /\ sessions' = MapPut(sessions, sid, o)
        /\ objs' = MapPut(objs, o, session)
        /\ emitted' = << Emit(Room(sid), "cli-status",
                              CliStatus(TRUE, data.publicKey, data.encrypted)) >>
        /\ userSessions' = UserSessionsAdd(userId, sid)
  /\ UNCHANGED <<sockets, timers, now, nextSock>>

\* what session-detached and the daemon's disconnect do to one session
Unbind(k, sid, os) ==
  IF sid \in DOMAIN sessions /\ os[sessions[sid]].daemonSocketId = k
  THEN [os EXCEPT ![sessions[sid]].daemonSocketId = NoSocket,
                  ![sessions[sid]].cliPublicKey = NoKey]
  ELSE os

UnbindEmit(k, sid) ==
  IF sid \in DOMAIN sessions /\ objs[sessions[sid]].daemonSocketId = k
  THEN << Emit(Room(sid), "cli-status",
               CliStatus(FALSE, NoKey, objs[sessions[sid]].encrypted)) >>
  ELSE << >>

\* socket.on('session-detached')
SessionDetached(k, data) ==
  /\ IsDaemonSocket(k)
  /\ cliDaemons' = [cliDaemons EXCEPT ![k].activeSessions = @ \ {data.sessionId}]
  /\ objs' = Unbind(k, data.sessionId, objs)
  /\ emitted' = UnbindEmit(k, data.sessionId)
  /\ UNCHANGED <<sessions, sockets, userSessions, timers, now, nextSock>>

\* the daemon's socket.on('encrypted-output')
DaemonEncryptedOutput(k, data) ==
  /\ IsDaemonSocket(k)
  /\ emitted' = << Emit(Own(data.viewerId), "encrypted-output",
                        [encrypted |-> data.encrypted, seq |-> data.seq,
                         timestamp |-> data.timestamp]) >>
  /\ RelayNoOp

RECURSIVE UnbindAll(_, _, _)
UnbindAll(k, sids, os) ==
  IF sids = {} THEN os
  ELSE LET sid == CHOOSE s \in sids : TRUE
       IN UnbindAll(k, sids \ {sid}, Unbind(k, sid, os))

RECURSIVE UnbindAllEmit(_, _)
UnbindAllEmit(k, sids) ==
  IF sids = {} THEN << >>
  ELSE LET sid == CHOOSE s \in sids : TRUE
       IN UnbindEmit(k, sid) \o UnbindAllEmit(k, sids \ {sid})

\* a daemon disconnect that only drops the daemon's record
DaemonDisconnectKeep(k) ==
  /\ IsDaemonSocket(k)
  /\ emitted' = << >>
  /\ cliDaemons' = MapDel(cliDaemons, k)
  /\ sockets' = MapDel(sockets, k)
  /\ UNCHANGED <<sessions, objs, userSessions, timers, now, nextSock>>

\* the daemon's socket.on('disconnect')
DaemonDisconnect(k) ==
  /\ IsDaemonSocket(k)
  /\ objs' = UnbindAll(k, cliDaemons[k].activeSessions, objs)
  /\ emitted' = UnbindAllEmit(k, cliDaemons[k].activeSessions)
  /\ cliDaemons' = MapDel(cliDaemons, k)
  /\ sockets' = MapDel(sockets, k)
  /\ UNCHANGED <<sessions, userSessions, timers, now, nextSock>>

\* the daemon's socket.on('active-sessions'): it logs how many sessions are reported
ActiveSessions(k, data) ==
  /\ IsDaemonSocket(k)
  /\ emitted' = << >>
  /\ RelayNoOp

\* a connection without a sessionId ('' or none in the query) is closed: no handler
\* is registered for it and it joins no room
RejectConnection ==
  /\ nextSock <= SocketLimit
  /\ nextSock' = nextSock + 1
  /\ emitted' = << >>
  /\ UNCHANGED <<sessions, objs, sockets, cliDaemons, userSessions, timers, now>>

\* a connection callback that binds a connection whatever sessionId it declares
ConnectionUnchecked(clientType, sessionId, publicKey, nickname, userSecret) ==
  IF clientType = "cli-daemon" THEN DaemonConnect(userSecret)
  ELSE IF clientType = "cli" THEN CliConnect(sessionId, publicKey, userSecret)
  ELSE ViewerConnect(sessionId, publicKey, nickname, userSecret)

\* io.on('connection') for the handshake query of the new connection
Connection(clientType, sessionId, publicKey, nickname, userSecret) ==
  IF clientType = "cli-daemon" THEN DaemonConnect(userSecret)
  ELSE IF sessionId = "" THEN RejectConnection
  ELSE IF clientType = "cli" THEN CliConnect(sessionId, publicKey, userSecret)
  ELSE ViewerConnect(sessionId, publicKey, nickname, userSecret)

(* ------------------------------------------------------------------ *)
(* Relay: POST /api/daemon/command and the daemon's cli-response        *)
(* ------------------------------------------------------------------ *)
\* `cmd_${Date.now()}_${random}`: the id made for the n-th request
CommandId(n) == <<"cmd", n>>

\* the n-th request's promise: resolve(body) is called
Resolve(log, n, body) == [log EXCEPT ![n].results = Append(@, [body |-> body, at |-> now])]

\* the request is answered without a promise
Return(command, body) ==
  Append(commandLog, [commandId |-> << >>, command |-> command, forwarded |-> FALSE,
                      at |-> now, responses |-> << >>,
                      results |-> << [body |-> body, at |-> now] >>])

\* cliDaemons.values().next().value: the daemon connected first, of those connected
FirstDaemon ==
  IF DOMAIN cliDaemons = {} THEN Null
  ELSE cliDaemons[CHOOSE k \in DOMAIN cliDaemons : \A j \in DOMAIN cliDaemons : k <= j]

\* app.post('/api/daemon/command')
PostDaemonCommand(command) ==
  /\ LET n == Len(commandLog) + 1
         daemon == FirstDaemon
         commandId == CommandId(n)
     IN IF command = ""
        THEN /\ commandLog' = Return(command, [error |-> "command is required"])
             /\ emitted' = << >>
             /\ UNCHANGED <<pendingCommands, timers>>
        ELSE IF daemon = Null
        THEN /\ commandLog' = Return(command, [error |-> "No CLI daemon connected"])
             /\ emitted' = << >>
             /\ UNCHANGED <<pendingCommands, timers>>
        ELSE IF daemon.socketId \notin DOMAIN sockets
        THEN /\ commandLog' = Return(command, [error |-> "Daemon socket not found"])
             /\ emitted' = << >>
             /\ UNCHANGED <<pendingCommands, timers>>
        ELSE /\ timers' = timers \cup {[commandId |-> commandId, request |-> n,
                                        due |-> now + COMMAND_TIMEOUT]}
             /\ pendingCommands' = MapPut(pendingCommands, commandId,
                                          [request |-> n, timeout |-> now + COMMAND_TIMEOUT])
             /\ commandLog' = Append(commandLog,
                                     [commandId |-> commandId, command |-> command,
                                      forwarded |-> TRUE, at |-> now, responses |-> << >>,
                                      results |-> << >>])
             /\ emitted' = << Emit({daemon.socketId}, "cli-command",
                                   [commandId |-> commandId, command |-> command]) >>
  /\ UNCHANGED <<sessions, objs, sockets, cliDaemons, userSessions, now, nextSock>>

\* what the pending entry's resolve / reject hand to the request's promise
CommandResult(response) ==
  IF response.success THEN [success |-> TRUE, data |-> response.data]
  ELSE [error |-> IF "error" \in DOMAIN response THEN response.error ELSE "Command failed"]

\* history: the response joins the log of the requests that were given its commandId
Arrived(log, response) ==
  [n \in DOMAIN log |->
     IF log[n].commandId = response.commandId
     THEN [log[n] EXCEPT !.responses = Append(@, [response |-> response, at |-> now])]
     ELSE log[n]]

\* the daemon's socket.on('cli-response')
CliResponse(k, response) ==
  /\ IsDaemonSocket(k)
  /\ LET commandId == response.commandId
         logged == Arrived(commandLog, response)
     IN IF commandId \in DOMAIN pendingCommands
        THEN LET pending == pendingCommands[commandId]
             IN /\ timers' = timers \ {[commandId |-> commandId, request |-> pending.request,
                                         due |-> pending.timeout]}
                /\ pendingCommands' = MapDel(pendingCommands, commandId)
                /\ commandLog' = Resolve(logged, pending.request, CommandResult(response))
        ELSE /\ commandLog' = logged
             /\ UNCHANGED <<pendingCommands, timers>>
  /\ emitted' = << Emit(DOMAIN sockets, "cli-response", response) >>
  /\ UNCHANGED <<sessions, objs, sockets, cliDaemons, userSessions, now, nextSock>>

\* the timeout callback, had it left the pendingCommands entry in place
CommandTimeoutKeep(t) ==
  /\ t \in timers
  /\ now >= t.due
  /\ timers' = timers \ {t}
  /\ commandLog' = Resolve(commandLog, t.request, [error |-> "Command timeout"])
  /\ emitted' = << >>
  /\ UNCHANGED <<sessions, objs, sockets, cliDaemons, userSessions, now, nextSock, pendingCommands>>

\* the setTimeout callback of a forwarded command
CommandTimeout(t) ==
  /\ t \in timers
  /\ now >= t.due
  /\ timers' = timers \ {t}
  /\ pendingCommands' = MapDel(pendingCommands, t.commandId)
  /\ commandLog' = Resolve(commandLog, t.request, [error |-> "Command timeout"])
  /\ emitted' = << >>
  /\ UNCHANGED <<sessions, objs, sockets, cliDaemons, userSessions, now, nextSock>>

(* ------------------------------------------------------------------ *)
(* History: how long a session has been without producer and viewers   *)
(* ------------------------------------------------------------------ *)
Idle(session) ==
  /\ session.cliSocketId = NoSocket
  /\ session.daemonSocketId = NoSocket
  /\ DOMAIN session.viewers = {}

TrackIdle ==
  idleSince' = [s \in DOMAIN sessions' |->
                  IF Idle(objs'[sessions'[s]])
                  THEN IF s \in DOMAIN sessions /\ idleSince[s] >= 0 THEN idleSince[s] ELSE now'
                  ELSE -1]

(* ------------------------------------------------------------------ *)
(* The crypto package                                                  *)
(* ------------------------------------------------------------------ *)
NoBytes == <<>>                    \* a null byte array or string

\* nacl.box.keyPair(): the n-th key pair drawn
generateKeyPair(n) == [publicKey |-> n, secretKey |-> <<"sk", n>>]

\* nacl.box.before: both sides of a key exchange get the same secret
computeSharedSecret(ourSecretKey, theirPublicKey) == <<"dh", {ourSecretKey[2], theirPublicKey}>>

decodeUTF8(str) == <<"utf8", str>>
encodeUTF8(bytes) == bytes[2]
JSONstringify(value) == <<"json", value>>
JSONparse(str) == str[2]
\* JSON.parse(str) returns instead of throwing a SyntaxError
IsJSON(str) == str[1] = "json"

\* nacl.secretbox under a nonce that nacl.randomBytes drew
encrypt(message, sharedSecret, nonce) ==
  [nonce |-> encodeBase64(nonce),
   ciphertext |-> encodeBase64(<<"box", sharedSecret, nonce, decodeUTF8(message)>>)]

\* nacl.secretbox.open, had it opened a box under any secret
decryptAnySecret(encrypted, sharedSecret) ==
  LET box == decodeBase64(encrypted.ciphertext)
  IN IF box[3] = decodeBase64(encrypted.nonce) THEN box[4] ELSE NoBytes

\* nacl.secretbox.open: null unless the secret and the nonce are the ones of the box
decrypt(encrypted, sharedSecret) ==
  LET box == decodeBase64(encrypted.ciphertext)
  IN IF box[2] = sharedSecret /\ box[3] = decodeBase64(encrypted.nonce) THEN box[4] ELSE NoBytes

decryptToString(encrypted, sharedSecret) ==
  LET decrypted == decrypt(encrypted, sharedSecret)
  IN IF decrypted = NoBytes THEN NoBytes ELSE encodeUTF8(decrypted)

(* ------------------------------------------------------------------ *)
(* TmuxCapture                                                         *)
(* ------------------------------------------------------------------ *)
OutputEvent(seq, content) == [type |-> "output", seq |-> seq, content |-> content, timestamp |-> now]

\* new TmuxCapture(options)
NewCapture == [running |-> FALSE, seq |-> 0, lastContent |-> ""]

\* a start that takes and numbers a first snapshot on every call
CaptureStartAgain(c, snapshot) ==
  IF snapshot # ""
  THEN [capture |-> [c EXCEPT !.running = TRUE, !.lastContent = snapshot, !.seq = 1],
        events |-> << OutputEvent(1, snapshot) >>]
  ELSE [capture |-> [c EXCEPT !.running = TRUE, !.lastContent = snapshot, !.seq = 0],
        events |-> << >>]

\* start(callback), where capturePane() returns snapshot: the capture and the events it emits
CaptureStart(c, snapshot) ==
  IF c.running THEN [capture |-> c, events |-> << >>]
  ELSE IF snapshot # ""
       THEN [capture |-> [c EXCEPT !.running = TRUE, !.lastContent = snapshot, !.seq = c.seq + 1],
             events |-> << OutputEvent(c.seq + 1, snapshot) >>]
       ELSE [capture |-> [c EXCEPT !.running = TRUE, !.lastContent = snapshot],
             events |-> << >>]

\* a poll that never compares the snapshot with the last one
CapturePollAlways(c, snapshot) ==
  IF ~c.running THEN [capture |-> c, events |-> << >>]
  ELSE [capture |-> [c EXCEPT !.seq = c.seq + 1, !.lastContent = snapshot],
        events |-> << OutputEvent(c.seq + 1, snapshot) >>]

\* a poll that numbers its frame before it counts it
CapturePollStale(c, snapshot) ==
  IF ~c.running THEN [capture |-> c, events |-> << >>]
  ELSE IF snapshot # c.lastContent
       THEN [capture |-> [c EXCEPT !.seq = c.seq + 1, !.lastContent = snapshot],
             events |-> << OutputEvent(c.seq, snapshot) >>]
       ELSE [capture |-> c, events |-> << >>]

\* poll(), where capturePane() returns snapshot
CapturePoll(c, snapshot) ==
  IF ~c.running THEN [capture |-> c, events |-> << >>]
  ELSE IF snapshot # c.lastContent
       THEN [capture |-> [c EXCEPT !.seq = c.seq + 1, !.lastContent = snapshot],
             events |-> << OutputEvent(c.seq + 1, snapshot) >>]
       ELSE [capture |-> c, events |-> << >>]

\* stop()
CaptureStop(c) == [c EXCEPT !.running = FALSE]

\* sendKeys(keys) and sendSpecialKey(key): the tmux send-keys they run
sendKeys(keys) == [command |-> "send-keys", literal |-> TRUE, keys |-> keys]
sendSpecialKey(key) == [command |-> "send-keys", literal |-> FALSE, keys |-> key]

(* ------------------------------------------------------------------ *)
(* EncryptedWSClient and the CLI main                                  *)
(* ------------------------------------------------------------------ *)
Msg(ev, data) == [ev |-> ev, data |-> data]

\* a JavaScript Map in insertion order
MapHas(m, k) == \E i \in DOMAIN m : m[i].key = k
MapGet(m, k) == m[CHOOSE i \in DOMAIN m : m[i].key = k].value
MapSet(m, k, v) ==
  IF MapHas(m, k)
  THEN [i \in DOMAIN m |-> IF m[i].key = k THEN [key |-> k, value |-> v] ELSE m[i]]
  ELSE Append(m, [key |-> k, value |-> v])
MapDelete(m, k) == LET Keep(e) == e.key # k IN SelectSeq(m, Keep)

\* new EncryptedWSClient(options) in the n-th run of the CLI
NewWSClient(n) ==
  [run |-> n, socket |-> NoSocket, keyPair |-> generateKeyPair(n),
   sharedSecrets |-> << >>, lastOutputEvent |-> Null]

EncryptedFrame(viewerId, event, sharedSecret, nonce) ==
  Msg("encrypted-output",
      [viewerId |-> viewerId, encrypted |-> encrypt(JSONstringify(event), sharedSecret, nonce),
       seq |-> event.seq, timestamp |-> event.timestamp])

\* a sendEncryptedOutput whose copy for the history goes out as one more frame
sendEncryptedOutputEcho(c, event, nonce) ==
  LET cached == [c EXCEPT !.lastOutputEvent = event]
      frames == [i \in DOMAIN c.sharedSecrets |->
                   EncryptedFrame(c.sharedSecrets[i].key, event, c.sharedSecrets[i].value, nonce)]
      history == IF Len(c.sharedSecrets) > 0
                 THEN << EncryptedFrame(c.sharedSecrets[1].key, event, c.sharedSecrets[1].value, nonce) >>
                 ELSE << >>
  IN IF c.socket = NoSocket
     THEN [client |-> cached, out |-> << >>]
     ELSE [client |-> cached, out |-> frames \o history]

\* sendEncryptedOutput(event): the client afterwards and what it emits to the relay
sendEncryptedOutput(c, event, nonce) ==
  LET cached == [c EXCEPT !.lastOutputEvent = event]
      frames == [i \in DOMAIN c.sharedSecrets |->
                   EncryptedFrame(c.sharedSecrets[i].key, event, c.sharedSecrets[i].value, nonce)]
      history == IF Len(c.sharedSecrets) > 0
                 THEN << Msg("output-history",
                             [encrypted |-> encrypt(JSONstringify(event), c.sharedSecrets[1].value, nonce),
                              seq |-> event.seq, timestamp |-> event.timestamp]) >>
                 ELSE << >>
  IN IF c.socket = NoSocket
     THEN [client |-> cached, out |-> << >>]
     ELSE [client |-> cached, out |-> frames \o history]

\* on 'viewer-joined'
OnViewerJoined(c, data, nonce) ==
  LET viewerPublicKey == publicKeyFromBase64(data.publicKey)
      sharedSecret == computeSharedSecret(c.keyPair.secretKey, viewerPublicKey)
  IN [client |-> [c EXCEPT !.sharedSecrets = MapSet(@, data.viewerId, sharedSecret)],
      out |-> IF c.lastOutputEvent # Null
              THEN << EncryptedFrame(data.viewerId, c.lastOutputEvent, sharedSecret, nonce) >>
              ELSE << >>]

\* on 'viewer-left'
OnViewerLeft(c, data) ==
  [client |-> [c EXCEPT !.sharedSecrets = MapDelete(@, data.viewerId)], out |-> << >>]

\* on 'encrypted-input': what the client emits on its socket, that is, to the relay
OnEncryptedInput(c, data) ==
  IF ~MapHas(c.sharedSecrets, data.viewerId) THEN [client |-> c, out |-> << >>]
  ELSE LET decrypted == decryptToString(data.encrypted, MapGet(c.sharedSecrets, data.viewerId))
       IN IF decrypted = NoBytes \/ ~IsJSON(decrypted) THEN [client |-> c, out |-> << >>]
          ELSE [client |-> c, out |-> << Msg("_decrypted-input", JSONparse(decrypted)) >>]

\* main: the handler that wsClient.onDecryptedInput registers for '_decrypted-input'
OnDecryptedInput(data) ==
  IF data.type = "special" THEN sendSpecialKey(data.keys) ELSE sendKeys(data.keys)

(* ------------------------------------------------------------------ *)
(* DaemonManager: the CLI in daemon mode                               *)
(* ------------------------------------------------------------------ *)
\* the tmux sessions that exist when the daemon starts
TmuxAtStart == {"s1"}
DaemonKey(n) == MaxRuns + MaxPages + n      \* the key pair of the daemon's n-th attach

\* new DaemonManager(options): tmux is the set of tmux sessions on the machine, drawn
\* the number of key pairs generated so far
NewDaemon == [socket |-> NoSocket, activeSessions |-> << >>, tmux |-> TmuxAtStart, drawn |-> 0]

\* what a handler of the daemon leaves: the daemon, what it emitted on its socket and
\* the tmux send-keys it ran
Did(d, out, keys) == [daemon |-> d, out |-> out, keys |-> keys]

Failed(commandId, error) == [commandId |-> commandId, success |-> FALSE, error |-> error]
Done(commandId, data) == [commandId |-> commandId, success |-> TRUE, data |-> data]

\* broadcastOutput(sessionName, event): the frames for the viewers of the session
broadcastOutput(d, sessionName, event, nonce) ==
  IF ~MapHas(d.activeSessions, sessionName) \/ d.socket = NoSocket THEN << >>
  ELSE LET secrets == MapGet(d.activeSessions, sessionName).sharedSecrets
       IN [i \in DOMAIN secrets |->
             Msg("encrypted-output",
                 [sessionId |-> sessionName, viewerId |-> secrets[i].key,
                  encrypted |-> encrypt(JSONstringify(event), secrets[i].value, nonce),
                  seq |-> event.seq, timestamp |-> event.timestamp])]

\* the callback cmdAttachSession gives to capture.start, for the events of one call
DaemonCallback(d, name, events, nonce) ==
  IF events = << >> THEN Did(d, << >>, << >>)
  ELSE LET session == MapGet(d.activeSessions, name)
           kept == [d EXCEPT !.activeSessions =
                      MapSet(@, name, [session EXCEPT !.lastOutput = events[1]])]
       IN Did(kept, broadcastOutput(kept, name, events[1], nonce), << >>)

\* cmdListSessions(commandId)
cmdListSessions(d, commandId) ==
  LET active == {d.activeSessions[i].key : i \in DOMAIN d.activeSessions}
  IN Done(commandId,
          [all |-> d.tmux, active |-> active,
           sessions |-> {[name |-> name, attached |-> name \in active,
                          viewerCount |-> IF name \in active
                                          THEN Len(MapGet(d.activeSessions, name).sharedSecrets)
                                          ELSE 0] : name \in d.tmux}])

\* cmdCreateSession(commandId, name); throws is whether tmux new-session fails
cmdCreateSession(d, commandId, name, throws) ==
  IF name = "" THEN [daemon |-> d, out |-> << >>, threw |-> FALSE,
                     response |-> Failed(commandId, "Session name is required")]
  ELSE IF name \in d.tmux
  THEN [daemon |-> d, out |-> << >>, threw |-> FALSE,
        response |-> Failed(commandId, "Session already exists")]
  ELSE IF throws THEN [daemon |-> d, out |-> << >>, threw |-> TRUE, response |-> Null]
  ELSE [daemon |-> [d EXCEPT !.tmux = @ \cup {name}], out |-> << >>, threw |-> FALSE,
        response |-> Done(commandId, [name |-> name])]

\* cmdAttachSession(commandId, name), where the new capture's first capturePane()
\* returns snapshot
cmdAttachSession(d, commandId, name, snapshot, nonce) ==
  IF name = "" THEN [daemon |-> d, out |-> << >>, threw |-> FALSE,
                     response |-> Failed(commandId, "Session name is required")]
  ELSE IF name \notin d.tmux
  THEN [daemon |-> d, out |-> << >>, threw |-> FALSE,
        response |-> Failed(commandId, "Session does not exist")]
  ELSE IF MapHas(d.activeSessions, name)
  THEN [daemon |-> d, out |-> << >>, threw |-> FALSE,
        response |-> Failed(commandId, "Session is already attached")]
  ELSE LET keyPair == generateKeyPair(DaemonKey(d.drawn + 1))
           pairingCode == [sessionId |-> name, publicKey |-> encodeBase64(keyPair.publicKey),
                           timestamp |-> now]
           started == CaptureStart(NewCapture, snapshot)
           sessionCapture == [sessionName |-> name, capture |-> started.capture,
                              keyPair |-> keyPair, pairingCode |-> pairingCode,
                              sharedSecrets |-> << >>, lastOutput |-> Null]
           attached == [d EXCEPT !.activeSessions = MapSet(@, name, sessionCapture),
                                 !.drawn = @ + 1]
           called == DaemonCallback(attached, name, started.events, nonce)
       IN [daemon |-> called.daemon,
           out |-> << Msg("session-attached",
                          [sessionId |-> name,
                           publicKey |-> publicKeyToBase64(keyPair.publicKey),
                           encrypted |-> TRUE]) >> \o called.out,
           threw |-> FALSE,
           response |-> Done(commandId,
                             [name |-> name,
                              publicKey |-> publicKeyToBase64(keyPair.publicKey),
                              pairingCode |-> JSONstringify(pairingCode)])]

\* a detach that stops the capture and tells the relay, and keeps the session
cmdDetachSessionKeeps(d, commandId, name) ==
  IF name = "" THEN [daemon |-> d, out |-> << >>, threw |-> FALSE,
                     response |-> Failed(commandId, "Session name is required")]
  ELSE IF ~MapHas(d.activeSessions, name)
  THEN [daemon |-> d, out |-> << >>, threw |-> FALSE,
        response |-> Failed(commandId, "Session is not attached")]
  ELSE LET session == MapGet(d.activeSessions, name)
           stopped == [session EXCEPT !.capture = CaptureStop(@)]
       IN [daemon |-> [d EXCEPT !.activeSessions = MapSet(@, name, stopped)],
           out |-> << Msg("session-detached", [sessionId |-> name]) >>,
           threw |-> FALSE,
           response |-> Done(commandId, [name |-> name])]

\* cmdDetachSession(commandId, name)
cmdDetachSession(d, commandId, name) ==
  IF name = "" THEN [daemon |-> d, out |-> << >>, threw |-> FALSE,
                     response |-> Failed(commandId, "Session name is required")]
  ELSE IF ~MapHas(d.activeSessions, name)
  THEN [daemon |-> d, out |-> << >>, threw |-> FALSE,
        response |-> Failed(commandId, "Session is not attached")]
  ELSE [daemon |-> [d EXCEPT !.activeSessions = MapDelete(@, name)],
        out |-> << Msg("session-detached", [sessionId |-> name]) >>,
        threw |-> FALSE,
        response |-> Done(commandId, [name |-> name])]

\* a handleCommand that answers the commands it knows and no other
handleCommandKnown(d, msg, snapshot, nonce, throws) ==
  LET ran == CASE msg.command = "list-sessions" ->
                    [daemon |-> d, out |-> << >>, threw |-> FALSE,
                     response |-> cmdListSessions(d, msg.commandId)]
               [] msg.command = "create-session" ->
                    cmdCreateSession(d, msg.commandId, msg.params.name, throws)
               [] msg.command = "attach-session" ->
                    cmdAttachSession(d, msg.commandId, msg.params.name, snapshot, nonce)
               [] msg.command = "detach-session" ->
                    cmdDetachSession(d, msg.commandId, msg.params.name)
               [] OTHER -> [daemon |-> d, out |-> << >>, threw |-> FALSE, response |-> Null]
      response == IF ran.threw THEN Failed(msg.commandId, "Command failed") ELSE ran.response
  IN Did(ran.daemon,
         ran.out \o (IF response = Null THEN << >> ELSE << Msg("cli-response", response) >>),
         << >>)

\* handleCommand(msg)
handleCommand(d, msg, snapshot, nonce, throws) ==
  LET ran == CASE msg.command = "list-sessions" ->
                    [daemon |-> d, out |-> << >>, threw |-> FALSE,
                     response |-> cmdListSessions(d, msg.commandId)]
               [] msg.command = "create-session" ->
                    cmdCreateSession(d, msg.commandId, msg.params.name, throws)
               [] msg.command = "attach-session" ->
                    cmdAttachSession(d, msg.commandId, msg.params.name, snapshot, nonce)
               [] msg.command = "detach-session" ->
                    cmdDetachSession(d, msg.commandId, msg.params.name)
               [] OTHER -> [daemon |-> d, out |-> << >>, threw |-> FALSE,
                            response |-> Failed(msg.commandId, "Unknown command")]
      response == IF ran.threw THEN Failed(msg.commandId, "Command failed") ELSE ran.response
  IN Did(ran.daemon, ran.out \o << Msg("cli-response", response) >>, << >>)

\* broadcastActiveSessionsList()
broadcastActiveSessionsList(d) ==
  << Msg("active-sessions",
         [sessions |-> [i \in DOMAIN d.activeSessions |->
                          [sessionId |-> d.activeSessions[i].key,
                           publicKey |-> publicKeyToBase64(d.activeSessions[i].value.keyPair.publicKey),
                           encrypted |-> TRUE,
                           viewerCount |-> Len(d.activeSessions[i].value.sharedSecrets)]]]) >>

\* handleViewerJoined(data); a publicKey that is no base64 makes publicKeyFromBase64 throw
handleViewerJoined(d, data, nonce) ==
  IF ~MapHas(d.activeSessions, data.sessionId) \/ data.publicKey = NoKey THEN Did(d, << >>, << >>)
  ELSE LET session == MapGet(d.activeSessions, data.sessionId)
           sharedSecret == computeSharedSecret(session.keyPair.secretKey,
                                               publicKeyFromBase64(data.publicKey))
           paired == [session EXCEPT !.sharedSecrets = MapSet(@, data.viewerId, sharedSecret)]
       IN Did([d EXCEPT !.activeSessions = MapSet(@, data.sessionId, paired)],
              IF session.lastOutput # Null
              THEN << Msg("encrypted-output",
                          [sessionId |-> data.sessionId, viewerId |-> data.viewerId,
                           encrypted |-> encrypt(JSONstringify(session.lastOutput), sharedSecret, nonce),
                           seq |-> session.lastOutput.seq,
                           timestamp |-> session.lastOutput.timestamp]) >>
              ELSE << >>,
              << >>)

\* handleViewerLeft(data)
handleViewerLeft(d, data) ==
  IF ~MapHas(d.activeSessions, data.sessionId) THEN Did(d, << >>, << >>)
  ELSE LET session == MapGet(d.activeSessions, data.sessionId)
           left == [session EXCEPT !.sharedSecrets = MapDelete(@, data.viewerId)]
       IN Did([d EXCEPT !.activeSessions = MapSet(@, data.sessionId, left)], << >>, << >>)

\* a handleEncryptedInput that tells the sender when it has no secret for it
handleEncryptedInputTells(d, data) ==
  IF ~MapHas(d.activeSessions, data.sessionId) THEN Did(d, << >>, << >>)
  ELSE LET secrets == MapGet(d.activeSessions, data.sessionId).sharedSecrets
       IN IF ~MapHas(secrets, data.viewerId)
          THEN Did(d, << Msg("error", [viewerId |-> data.viewerId,
                                       message |-> "No shared secret"]) >>, << >>)
          ELSE LET decrypted == decryptToString(data.encrypted, MapGet(secrets, data.viewerId))
               IN IF decrypted = NoBytes \/ ~IsJSON(decrypted) THEN Did(d, << >>, << >>)
                  ELSE Did(d, << >>, << OnDecryptedInput(JSONparse(decrypted)) >>)

\* handleEncryptedInput(data)
handleEncryptedInput(d, data) ==
  IF ~MapHas(d.activeSessions, data.sessionId) THEN Did(d, << >>, << >>)
  ELSE LET secrets == MapGet(d.activeSessions, data.sessionId).sharedSecrets
       IN IF ~MapHas(secrets, data.viewerId) THEN Did(d, << >>, << >>)
          ELSE LET decrypted == decryptToString(data.encrypted, MapGet(secrets, data.viewerId))
               IN IF decrypted = NoBytes \/ ~IsJSON(decrypted) THEN Did(d, << >>, << >>)
                  ELSE Did(d, << >>, << OnDecryptedInput(JSONparse(decrypted)) >>)

(* ------------------------------------------------------------------ *)
(* The viewer page                                                     *)
(* ------------------------------------------------------------------ *)
\* the page's state when it has loaded
NewPage ==
  [socket |-> NoSocket, keyPair |-> Null, sharedSecret |-> NoBytes, isEncrypted |-> FALSE,
   hasControl |-> FALSE, controlLocked |-> FALSE, currentSeq |-> 0]

\* an update that takes every lock for the page's own
updateControlStatusMine(v, data) ==
  [v EXCEPT !.controlLocked = data.locked, !.hasControl = data.locked]

\* updateControlStatus(data); mySocketId is the id of the page's connection
updateControlStatus(v, data) ==
  [v EXCEPT !.controlLocked = data.locked,
            !.hasControl = data.locked /\ data.holderId = v.socket]

\* connect(sessionId, nickname) up to the creation of the socket, with the n-th key pair
PageConnect(v, n) ==
  [updateControlStatus(v, [locked |-> FALSE]) EXCEPT
     !.keyPair = generateKeyPair(n), !.sharedSecret = NoBytes, !.isEncrypted = FALSE,
     !.hasControl = FALSE, !.controlLocked = FALSE]

\* on 'connect' of the connection id
PageOnConnect(v, id) ==
  [page |-> [v EXCEPT !.socket = id], out |-> << Msg("get-history", Null) >>]

\* on 'disconnect'
PageOnDisconnect(v) ==
  [v EXCEPT !.sharedSecret = NoBytes, !.isEncrypted = FALSE, !.hasControl = FALSE,
            !.socket = NoSocket]

\* on 'cli-status'
PageOnCliStatus(v, data) ==
  IF data.connected /\ data.publicKey # NoKey /\ v.keyPair # Null
  THEN [v EXCEPT !.sharedSecret = computeSharedSecret(v.keyPair.secretKey,
                                                      publicKeyFromBase64(data.publicKey)),
                 !.isEncrypted = TRUE]
  ELSE IF data.connected THEN v
  ELSE [v EXCEPT !.sharedSecret = NoBytes]

\* handleOutput(event, isHistory)
handleOutput(v, event, isHistory) ==
  IF event.seq <= v.currentSeq /\ ~isHistory THEN v
  ELSE [v EXCEPT !.currentSeq = event.seq]

\* on 'encrypted-output'
PageOnEncryptedOutput(v, data) ==
  IF v.sharedSecret = NoBytes THEN v
  ELSE LET decrypted == decryptToString(data.encrypted, v.sharedSecret)
       IN IF decrypted = NoBytes THEN v
          ELSE handleOutput(v, JSONparse(decrypted), FALSE)

\* on 'history': events.forEach(event => handleOutput(event, true))
RECURSIVE PageOnHistory(_, _)
PageOnHistory(v, events) ==
  IF events = << >> THEN v
  ELSE PageOnHistory(handleOutput(v, Head(events), TRUE), Tail(events))

\* on 'encrypted-history'
RECURSIVE PageOnEncryptedHistory(_, _)
PageOnEncryptedHistory(v, events) ==
  IF v.sharedSecret = NoBytes \/ events = << >> THEN v
  ELSE LET decrypted == decryptToString(Head(events).encrypted, v.sharedSecret)
       IN PageOnEncryptedHistory(
            IF decrypted = NoBytes THEN v ELSE handleOutput(v, JSONparse(decrypted), TRUE),
            Tail(events))

\* sendInput(keys, type): what the page emits to the relay
sendInput(v, inputData, nonce) ==
  IF v.socket = NoSocket THEN << >>
  ELSE IF v.isEncrypted /\ v.sharedSecret # NoBytes
       THEN << Msg("encrypted-input",
                   [encrypted |-> encrypt(JSONstringify(inputData), v.sharedSecret, nonce)]) >>
       ELSE << Msg("input", inputData) >>

(* ------------------------------------------------------------------ *)
(* The relay under arbitrary clients                                   *)
(* ------------------------------------------------------------------ *)
\* what clients put in the handshake query and in their messages
WireKeys == {NoKey, encodeBase64(1)}
InputData == {[keys |-> "ls", type |-> "text"], [keys |-> "Enter", type |-> "special"]}
WireEnvelopes == {[nonce |-> encodeBase64(1), ciphertext |-> encodeBase64(1)]}

RelayInit ==
  /\ sessions = << >>
  /\ objs = << >>
  /\ sockets = << >>
  /\ cliDaemons = << >>
  /\ userSessions = << >>
  /\ timers = {}
  /\ now = 0
  /\ nextSock = 1
  /\ emitted = << >>
  /\ idleSince = << >>
  /\ pendingCommands = << >>
  /\ commandLog = << >>

PageIds == 1..MaxPages
Snapshots == {"", "a"}        \* what capturePane() returns: '' when tmux fails
Nonces == {"n1"}

\* the CLI process has started and the pages have loaded; nothing is connected
EndInit ==
  /\ capture = NewCapture
  /\ wsClient = NewWSClient(1)
  /\ pages = [p \in PageIds |-> NewPage]
  /\ toRelay = << >>
  /\ toClient = << >>
  /\ injected = << >>
  /\ got = [p \in PageIds |-> << >>]
  /\ owed = {}
  /\ keysIn = << >>
  /\ joinSeq = [p \in PageIds |-> 0]
  /\ typed = 0
  /\ handed = << >>
  /\ lastCall = Null
  /\ daemonManager = NewDaemon

Init == RelayInit /\ EndInit

RelayControl ==
  \E k \in DOMAIN sockets :
    \/ RequestControl(k)
    \/ ReleaseControl(k)
    \/ \E data \in InputData : RelayInput(k, data)
    \/ \E e \in WireEnvelopes : RelayEncryptedInput(k, [encrypted |-> e])

(* ------------------------------------------------------------------ *)
(* The control lock: producers and viewers of the sessions come and go, *)
(* viewers ask for control, release it and send input, time passes     *)
(* ------------------------------------------------------------------ *)
ControlSessions == {"s1"}
\* every other connection gives a nickname
ControlNick(id) == IF id % 2 = 0 THEN "ann" ELSE NoNick

ControlConnects ==
  \/ \E sid \in ControlSessions, pk \in WireKeys : CliConnect(sid, pk, NoSecret)
  \/ \E sid \in ControlSessions :
       ViewerConnect(sid, encodeBase64(2), ControlNick(nextSock), NoSecret)
  \/ DaemonConnect(NoSecret)
  \/ \E k \in DOMAIN sockets, sid \in ControlSessions :
       SessionAttached(k, [sessionId |-> sid, publicKey |-> encodeBase64(1), encrypted |-> TRUE])
  \/ \E k \in DOMAIN sockets : DaemonDisconnect(k)

ControlNext ==
  /\ \/ ControlConnects
     \/ RelayControl
     \/ \E k \in DOMAIN sockets : RelayDisconnect(k)
     \/ Tick(ControlTicks)
  /\ TrackIdle
  /\ UNCHANGED <<endVars, cmdVars>>

SpecControl == Init /\ [][ControlNext]_vars

\* a viewer socket of a session, as the handlers see it
IsViewer(k) == IsSessionSocket(k) /\ sockets[k].clientType # "cli"

\* the viewer's session holds a lock of another viewer that saw input less than 30 s ago
HeldByOther(k) ==
  /\ IsViewer(k)
  /\ SessOf(k).controlLock # Null
  /\ SessOf(k).controlLock.holderId # k
  /\ now - SessOf(k).controlLock.lastInputAt < CONTROL_LOCK_TIMEOUT

Forwards(out) == \E i \in 1..Len(out) : out[i].ev \in {"input", "encrypted-input"}
Rejection(k) == << Emit({k}, "input-rejected", [reason |-> "not-controller"]) >>

\* C1: while a lock is held by another viewer and saw input less than 30 s ago, an
\* input or encrypted-input of a viewer is not forwarded to the producer: the sender
\* alone gets input-rejected{not-controller} and no session (so no lock) changes.
C1_LockExcludesOthers ==
  [][\A k \in DOMAIN sockets :
       (/\ HeldByOther(k)
        /\ \/ \E data \in InputData : RelayInput(k, data)
           \/ \E e \in WireEnvelopes : RelayEncryptedInput(k, [encrypted |-> e]))
       => (/\ emitted' = Rejection(k)
           /\ ~Forwards(emitted')
           /\ objs' = objs)]_vars

\* C1 witness: a viewer has just been rejected while another viewer holds the lock
\* and a producer is connected that the input would have gone to.
C1_Witness ==
  \E k \in DOMAIN sockets :
    /\ HeldByOther(k)
    /\ emitted = Rejection(k)
    /\ SessOf(k).cliSocketId # NoSocket
    /\ SessOf(k).controlLock.holderId \in DOMAIN SessOf(k).viewers

\* request-control of viewer k is to be granted
Grantable(k) ==
  \/ SessOf(k).controlLock = Null
  \/ now - SessOf(k).controlLock.lastInputAt >= CONTROL_LOCK_TIMEOUT
  \/ SessOf(k).controlLock.holderId = k

\* C7: request-control of a viewer is granted exactly when there is no lock, the
\* lock's lastInputAt is at least 30 s old or the viewer holds it: the lock becomes
\* {holderId, acquiredAt = lastInputAt = now} and control-status{locked, holderId} goes
\* to the session; otherwise no session changes, nothing is broadcast and the viewer
\* alone gets control-denied{locked, holderId, holderNickname}.
C7_RequestControl ==
  [][\A k \in DOMAIN sockets :
       (IsViewer(k) /\ RequestControl(k))
       => IF Grantable(k)
          THEN LET lock == [holderId |-> k, holderNickname |-> sockets[k].nickname,
                            acquiredAt |-> now, lastInputAt |-> now]
               IN /\ objs' = [objs EXCEPT ![sockets[k].obj].controlLock = lock]
                  /\ emitted' = << Emit(Room(sockets[k].sessionId), "control-status",
                                        [locked |-> TRUE, holderId |-> k,
                                         holderNickname |-> sockets[k].nickname,
                                         acquiredAt |-> now]) >>
          ELSE /\ objs' = objs
               /\ emitted' = << Emit({k}, "control-denied",
                                     [reason |-> "locked",
                                      holderId |-> SessOf(k).controlLock.holderId,
                                      holderNickname |->
                                        SessOf(k).viewers[SessOf(k).controlLock.holderId].nickname]) >>
     ]_vars

\* C7 witness: a viewer was denied control that a viewer with another nickname holds.
C7_Witness ==
  \E k \in DOMAIN sockets :
    /\ HeldByOther(k)
    /\ Len(emitted) = 1 /\ emitted[1].ev = "control-denied" /\ emitted[1].to = {k}
    /\ emitted[1].data.holderNickname # sockets[k].nickname

\* C7 second case: an idle lock of another viewer was taken over.
C7_WitnessTakeover ==
  \E k \in DOMAIN sockets :
    /\ IsViewer(k)
    /\ SessOf(k).controlLock # Null /\ SessOf(k).controlLock.holderId = k
    /\ SessOf(k).controlLock.acquiredAt = now /\ now >= CONTROL_LOCK_TIMEOUT
    /\ Len(emitted) = 1 /\ emitted[1].ev = "control-status"
    /\ Cardinality(DOMAIN SessOf(k).viewers) = 2

\* the viewer's session holds a lock of another viewer whose last input is at least
\* 30 s old
IdleLockOfOther(k) ==
  /\ IsViewer(k)
  /\ SessOf(k).controlLock # Null
  /\ SessOf(k).controlLock.holderId # k
  /\ now - SessOf(k).controlLock.lastInputAt >= CONTROL_LOCK_TIMEOUT

\* the handler has cleared the lock of k's session, told the session, and passed
\* the message on to the session's producer binding, if there is one
ExpiredThenForwarded(k, ev, data) ==
  LET o == sockets[k].obj
      bound == {objs[o].cliSocketId, objs[o].daemonSocketId} \ {NoSocket}
  IN /\ objs' = [objs EXCEPT ![o].controlLock = Null]
     /\ emitted' # << >>
     /\ emitted'[1] = Emit(Room(sockets[k].sessionId), "control-status", [locked |-> FALSE])
     /\ bound # {} =>
          /\ Len(emitted') = 2
          /\ emitted'[2].ev = ev
          /\ emitted'[2].data = data
          /\ emitted'[2].to # {}
          /\ emitted'[2].to \subseteq bound

\* C30: lazy idle expiry on input.  When a viewer other than the holder sends input
\* or encrypted-input and the lock's lastInputAt is at least 30 s old, the lock
\* becomes null (the sender does not get it), control-status{locked:false} goes to
\* the session, and the same input is then forwarded to the producer.
C30_IdleLockExpiresOnInput ==
  [][\A k \in DOMAIN sockets :
       /\ \A data \in InputData :
            (IdleLockOfOther(k) /\ RelayInput(k, data))
            => ExpiredThenForwarded(k, "input", data)
       /\ \A e \in WireEnvelopes :
            (IdleLockOfOther(k) /\ RelayEncryptedInput(k, [encrypted |-> e]))
            => ExpiredThenForwarded(k, "encrypted-input", [viewerId |-> k, encrypted |-> e])
     ]_vars

\* the lock of k's session is held by k
Holds(k) ==
  /\ IsViewer(k)
  /\ SessOf(k).controlLock # Null
  /\ SessOf(k).controlLock.holderId = k

\* C31: an input or encrypted-input of the lock holder sets the lock's lastInputAt to
\* the current time and leaves the rest of the lock alone; lastInputAt of a lock that
\* stays with its holder never decreases; and while the last input of the holder is
\* less than 30 s old, neither request-control nor input of another viewer changes
\* the lock.
C31_HolderInputKeepsLock ==
  [][\A k \in DOMAIN sockets :
       LET o == sockets[k].obj
           sends == \/ \E data \in InputData : RelayInput(k, data)
                    \/ \E e \in WireEnvelopes : RelayEncryptedInput(k, [encrypted |-> e])
       IN /\ (Holds(k) /\ sends)
             => objs' = [objs EXCEPT ![o].controlLock.lastInputAt = now]
          /\ (Holds(k) /\ o \in DOMAIN objs' /\ objs'[o].controlLock # Null
                /\ objs'[o].controlLock.holderId = k)
             => objs'[o].controlLock.lastInputAt >= objs[o].controlLock.lastInputAt
          /\ (HeldByOther(k) /\ (sends \/ RequestControl(k)))
             => objs'[o].controlLock = objs[o].controlLock
     ]_vars

\* C31 witness: the holder got the lock at least 30 s ago and has sent input since,
\* less than 30 s ago; another viewer has just been denied control.
C31_Witness ==
  \E k \in DOMAIN sockets :
    /\ HeldByOther(k)
    /\ now - SessOf(k).controlLock.acquiredAt >= CONTROL_LOCK_TIMEOUT
    /\ SessOf(k).controlLock.lastInputAt > SessOf(k).controlLock.acquiredAt
    /\ Len(emitted) = 1 /\ emitted[1].ev = "control-denied" /\ emitted[1].to = {k}

\* C32: release-control of the connection that holds the lock sets the lock to null
\* and sends control-status{locked:false} to the session; release-control of any other
\* connection of a session (another viewer, the producer, anyone when there is no
\* lock) changes no session and emits nothing.
C32_OnlyHolderReleases ==
  [][\A k \in DOMAIN sockets :
       (IsSessionSocket(k) /\ ReleaseControl(k))
       => IF SessOf(k).controlLock # Null /\ SessOf(k).controlLock.holderId = k
          THEN /\ objs' = [objs EXCEPT ![sockets[k].obj].controlLock = Null]
               /\ emitted' = << Emit(Room(sockets[k].sessionId), "control-status",
                                     [locked |-> FALSE]) >>
          ELSE /\ objs' = objs
               /\ emitted' = << >>
     ]_vars

\* C32 witness: no connection has ever closed, a session with a producer and two
\* viewers has no lock, and the one message just sent tells all three so: the holder
\* has released.
C32_Witness ==
  \E sid \in DOMAIN sessions :
    LET session == objs[sessions[sid]]
    IN /\ DOMAIN sockets = 1..(nextSock - 1)
       /\ session.controlLock = Null
       /\ session.cliSocketId # NoSocket
       /\ Cardinality(DOMAIN session.viewers) = 2
       /\ emitted = << Emit(Room(sid), "control-status", [locked |-> FALSE]) >>
       /\ Room(sid) = DOMAIN session.viewers \cup {session.cliSocketId}

(* ------------------------------------------------------------------ *)
(* The history rings: producers of one session send frame after frame  *)
(* ------------------------------------------------------------------ *)
RingSession == "s1"

\* the sequence number after the last one a ring holds
NextSeq(ring) == IF ring = << >> THEN 1 ELSE ring[Len(ring)].seq + 1

RingEvent(k) ==
  [type |-> "output", seq |-> NextSeq(SessOf(k).outputHistory), content |-> "pane",
   timestamp |-> now]
RingHistoryEvent(k, e) ==
  [encrypted |-> e, seq |-> NextSeq(SessOf(k).encryptedHistory), timestamp |-> now]

RingSend ==
  \E k \in DOMAIN sockets :
    \/ /\ NextSeq(SessOf(k).outputHistory) <= RingFrames
       /\ RelayOutput(k, RingEvent(k))
    \/ /\ NextSeq(SessOf(k).encryptedHistory) <= RingFrames
       /\ \E e \in WireEnvelopes : RelayOutputHistory(k, RingHistoryEvent(k, e))

RingNext ==
  /\ \/ CliConnect(RingSession, encodeBase64(1), NoSecret)
     \/ RingSend
  /\ TrackIdle
  /\ UNCHANGED <<endVars, cmdVars>>

SpecRing == Init /\ [][RingNext]_vars

\* the ring after one more entry: the most recent 100 at most, in arrival order
Pushed(before, after, entry) ==
  /\ Len(after) <= HISTORY_MAX
  /\ after = IF Len(before) < HISTORY_MAX THEN Append(before, entry)
             ELSE Append(Tail(before), entry)

\* C9: outputHistory and encryptedHistory of every session hold at most 100 entries,
\* and an entry appended to a full ring removes the oldest one, so that the ring
\* holds the most recent entries in arrival order.
C9_RingBound ==
  /\ [](\A o \in DOMAIN objs : /\ Len(objs[o].outputHistory) <= HISTORY_MAX
                               /\ Len(objs[o].encryptedHistory) <= HISTORY_MAX)
  /\ [][\A k \in DOMAIN sockets :
          /\ RelayOutput(k, RingEvent(k))
             => Pushed(SessOf(k).outputHistory, objs'[sockets[k].obj].outputHistory,
                       RingEvent(k))
          /\ \A e \in WireEnvelopes :
               RelayOutputHistory(k, RingHistoryEvent(k, e))
               => Pushed(SessOf(k).encryptedHistory, objs'[sockets[k].obj].encryptedHistory,
                         [viewerId |-> NoSocket, encrypted |-> e,
                          seq |-> RingHistoryEvent(k, e).seq, timestamp |-> now])
     ]_vars

\* C9 witness: both rings are full and have dropped their first entries.
C9_Witness ==
  \E o \in DOMAIN objs :
    /\ Len(objs[o].outputHistory) = HISTORY_MAX /\ objs[o].outputHistory[1].seq = 3
    /\ Len(objs[o].encryptedHistory) = HISTORY_MAX /\ objs[o].encryptedHistory[1].seq = 2

(* ------------------------------------------------------------------ *)
(* Replacement: producers and viewers of one session connect and leave, *)
(* and only connections that are not the session's bound producer send *)
(* ------------------------------------------------------------------ *)
Unbound(k) == IsSessionSocket(k) /\ SessOf(k).cliSocketId # k

UnboundSend ==
  \E k \in DOMAIN sockets :
    /\ Unbound(k)
    /\ \/ /\ NextSeq(SessOf(k).outputHistory) <= MaxFrames
          /\ RelayOutput(k, RingEvent(k))
       \/ /\ NextSeq(SessOf(k).encryptedHistory) <= MaxFrames
          /\ \E e \in WireEnvelopes : RelayOutputHistory(k, RingHistoryEvent(k, e))
       \/ \E v \in DOMAIN sockets, e \in WireEnvelopes :
            RelayEncryptedOutput(k, [viewerId |-> v, encrypted |-> e, seq |-> 1, timestamp |-> now])

ReplaceNext ==
  /\ \/ \E key \in {1, 2} : CliConnect(RingSession, encodeBase64(key), NoSecret)
     \/ \E pk \in {NoKey, encodeBase64(3)} : ViewerConnect(RingSession, pk, NoNick, NoSecret)
     \/ \E k \in DOMAIN sockets : RelayDisconnect(k)
     \/ UnboundSend
  /\ TrackIdle
  /\ UNCHANGED <<endVars, cmdVars>>

SpecReplace == Init /\ [][ReplaceNext]_vars

\* C15: per session at most one producer connection is bound; once a second
\* producer has connected, output, encrypted-output and output-history messages of
\* the earlier connection are neither stored nor routed to the viewers.  In a run
\* where only connections that are not the bound producer send, no session stores
\* a frame and no handler emits one.
C15_OnlyBoundProducerSends ==
  /\ \A o \in DOMAIN objs :
       /\ objs[o].lastOutput = Null
       /\ objs[o].outputHistory = << >>
       /\ objs[o].encryptedHistory = << >>
  /\ \A i \in DOMAIN emitted : emitted[i].ev \notin {"output", "encrypted-output"}

\* C16: every entry of the viewers map of a session whose encrypted flag is set has
\* a non-empty public key: a viewer that connects to an encrypted session without a
\* publicKey is not admitted as a viewer of that session.
C16_EncryptedViewersHaveKeys ==
  [][\A k \in DOMAIN sockets' \ DOMAIN sockets :
       LET sid == sockets'[k].sessionId
       IN (/\ sid \in DOMAIN sessions
           /\ objs[sessions[sid]].encrypted
           /\ k \in DOMAIN objs'[sessions'[sid]].viewers)
          => objs'[sessions'[sid]].viewers[k].publicKey # NoKey]_vars

(* ------------------------------------------------------------------ *)
(* The reaper: producers, daemons and viewers of a session come and go, *)
(* daemons attach and detach it, time passes and the timeouts run      *)
(* ------------------------------------------------------------------ *)
ReapSessions == {"s1"}

ReapConnects ==
  \/ \E sid \in ReapSessions : CliConnect(sid, encodeBase64(1), NoSecret)
  \/ \E sid \in ReapSessions : ViewerConnect(sid, encodeBase64(2), NoNick, NoSecret)
  \/ DaemonConnect(NoSecret)

ReapDaemon ==
  \E k \in DOMAIN sockets :
    \/ \E sid \in ReapSessions :
         SessionAttached(k, [sessionId |-> sid, publicKey |-> encodeBase64(1), encrypted |-> TRUE])
    \/ \E sid \in ReapSessions : SessionDetached(k, [sessionId |-> sid])
    \/ DaemonDisconnect(k)

ReapLeaves ==
  \/ \E k \in DOMAIN sockets : RelayDisconnect(k)
  \/ \E t \in timers : ReapTimer(t)
  \/ Tick(ReapTicks)

ReapNext ==
  /\ \/ ReapConnects
     \/ ReapDaemon
     \/ ReapLeaves
  /\ TrackIdle
  /\ UNCHANGED <<endVars, cmdVars>>

SpecReap == Init /\ [][ReapNext]_vars

\* C10: a session that has had no producer binding (CLI or daemon) and no viewers
\* for 60 s is removed from the directory, whichever event left it empty.  A timeout
\* that is due runs before the clock moves on, so no session in the directory has
\* been empty for more than 60 s.
C10_ReapedAfterGrace ==
  \A s \in DOMAIN sessions : idleSince[s] >= 0 => now - idleSince[s] <= REAP_DELAY

\* the same for the sessions no daemon ever attached
C10_ReapedUnlessDaemon ==
  \A s \in DOMAIN sessions :
    (idleSince[s] >= 0 /\ \E t \in timers : t.sessionId = s) => now - idleSince[s] <= REAP_DELAY

\* C11: the reaper deletes a session only if the session had no producer and no
\* viewers during the whole 60 s before the deletion: a connection that joins and
\* leaves during a pending grace period restarts the 60 s.  Stated for the sessions
\* no daemon is attached to.
C11_GraceFromLastDeparture ==
  [][\A s \in DOMAIN sessions :
       (s \notin DOMAIN sessions' /\ objs[sessions[s]].daemonSocketId = NoSocket)
         => (idleSince[s] >= 0 /\ now - idleSince[s] >= REAP_DELAY)]_vars

\* C20: daemon-mode pairing.  When a viewer with a public key joins an encrypted
\* session that a connected daemon has attached, the relay's connection handler
\* emits viewer-joined{sessionId, viewerId, publicKey} to that daemon.
C20_DaemonPaired ==
  [][\A sid \in DOMAIN sessions :
       LET session == objs[sessions[sid]]
       IN (/\ session.encrypted
           /\ session.daemonSocketId \in DOMAIN cliDaemons
           /\ nextSock \in DOMAIN sockets'
           /\ sockets'[nextSock].clientType = "viewer"
           /\ sockets'[nextSock].sessionId = sid
           /\ sockets'[nextSock].publicKey # NoKey)
          => \E i \in DOMAIN emitted' :
               /\ emitted'[i].ev = "viewer-joined"
               /\ session.daemonSocketId \in emitted'[i].to
               /\ emitted'[i].data = [sessionId |-> sid, viewerId |-> nextSock,
                                      publicKey |-> sockets'[nextSock].publicKey]]_vars

\* C21: the cli-status sent to a newly joined viewer has connected = true exactly
\* when the session has a producer binding (a producer connection or an attached
\* daemon), and its publicKey and encrypted fields are the session's cliPublicKey
\* and encrypted flag.
C21_StatusTellsBinding ==
  [][(nextSock \in DOMAIN sockets' /\ sockets'[nextSock].clientType = "viewer") =>
       LET session == objs'[sockets'[nextSock].obj]
       IN \E i \in DOMAIN emitted' :
            /\ emitted'[i].ev = "cli-status"
            /\ emitted'[i].to = {nextSock}
            /\ emitted'[i].data =
                 CliStatus(session.cliSocketId # NoSocket \/ session.daemonSocketId # NoSocket,
                           session.cliPublicKey, session.encrypted)]_vars

\* C22: a session's daemonSocketId is null or the id of a connected daemon whose
\* activeSessions holds the session; when a daemon's disconnect has been processed
\* its record is gone, no session is bound to it, and the viewers of every session
\* it had bound have been sent cli-status{connected:false}.
C22_DaemonBindings ==
  /\ [](\A sid \in DOMAIN sessions :
          LET d == objs[sessions[sid]].daemonSocketId
          IN d # NoSocket => (d \in DOMAIN cliDaemons /\ sid \in cliDaemons[d].activeSessions))
  /\ [][\A k \in DOMAIN cliDaemons :
          k \notin DOMAIN sockets' =>
            /\ k \notin DOMAIN cliDaemons'
            /\ \A sid \in DOMAIN sessions' : objs'[sessions'[sid]].daemonSocketId # k
            /\ \A sid \in DOMAIN sessions :
                 objs[sessions[sid]].daemonSocketId = k =>
                   \E i \in DOMAIN emitted' :
                     /\ emitted'[i].ev = "cli-status"
                     /\ emitted'[i].to = Room(sid)
                     /\ ~emitted'[i].data.connected]_vars

\* a daemon that had attached a session with a viewer in it has disconnected
C22_Witness ==
  /\ cliDaemons = << >>
  /\ \E sid \in DOMAIN sessions :
       /\ objs[sessions[sid]].daemonSocketId = NoSocket
       /\ DOMAIN objs[sessions[sid]].viewers # {}
       /\ \E i \in DOMAIN emitted :
            /\ emitted[i].ev = "cli-status"
            /\ emitted[i].to = DOMAIN objs[sessions[sid]].viewers
            /\ ~emitted[i].data.connected
  /\ nextSock > 2

\* C40: the reaper never deletes a session that has a producer binding - a producer
\* connection or a daemon that has it attached - or a viewer: a session that leaves
\* the directory had cliSocketId and daemonSocketId null and no viewers.
C40_BoundIsNotReaped ==
  [][\A sid \in DOMAIN sessions :
       sid \notin DOMAIN sessions'
       => LET session == objs[sessions[sid]]
          IN /\ session.cliSocketId = NoSocket
             /\ session.daemonSocketId = NoSocket
             /\ DOMAIN session.viewers = {}
     ]_vars

\* the same for the bindings the timeout callback reads
C40_ReadBindingIsNotReaped ==
  [][\A sid \in DOMAIN sessions :
       sid \notin DOMAIN sessions'
       => LET session == objs[sessions[sid]]
          IN /\ session.cliSocketId = NoSocket
             /\ DOMAIN session.viewers = {}
     ]_vars

(* ------------------------------------------------------------------ *)
(* Admission: connections of every client type arrive with and without  *)
(* a sessionId, leave, and the reaper runs                              *)
(* ------------------------------------------------------------------ *)
ClientTypes == {"cli", "viewer", "cli-daemon"}
AdmissionNext ==
  /\ \/ \E clientType \in ClientTypes, sessionId \in {"", RingSession},
            userSecret \in {NoSecret, "u1"} :
          /\ Connection(clientType, sessionId, encodeBase64(1), NoNick, userSecret)
          /\ lastCall' = [who |-> "relay", ev |-> "connection",
                          data |-> [clientType |-> clientType, sessionId |-> sessionId],
                          out |-> emitted']
     \/ /\ \/ \E k \in DOMAIN sockets : RelayDisconnect(k)
           \/ \E k \in DOMAIN sockets : DaemonDisconnect(k)
           \/ \E t \in timers : ReapTimer(t)
           \/ Tick(ReapTicks)
        /\ UNCHANGED lastCall
  /\ TrackIdle
  /\ UNCHANGED <<capture, wsClient, pages, toRelay, toClient, injected, got, owed, keysIn, joinSeq,
                 typed, handed, cmdVars>>

SpecAdmission == Init /\ [][AdmissionNext]_vars

\* C37: a producer or viewer connection that declares no sessionId is closed at once:
\* it creates no session, is recorded neither as producer nor as viewer and leaves
\* sessions, userSessions and cliDaemons (and the open connections) as they were.  A
\* daemon connection is accepted without a sessionId: it is open and has its record.
C37_NoSessionIdIsRejected ==
  [][\A clientType \in ClientTypes, userSecret \in {NoSecret, "u1"} :
       Connection(clientType, "", encodeBase64(1), NoNick, userSecret)
       => IF clientType = "cli-daemon"
          THEN /\ nextSock \in DOMAIN sockets'
               /\ nextSock \in DOMAIN cliDaemons'
               /\ cliDaemons'[nextSock].socketId = nextSock
          ELSE /\ UNCHANGED <<sessions, objs, userSessions, cliDaemons, sockets, timers>>
               /\ emitted' = << >>
     ]_vars

\* C37 witness: the relay has just closed a viewer connection that named no session,
\* with a producer and its session in place; the connection is not open and no
\* session '' exists.
C37_Witness ==
  /\ lastCall # Null
  /\ lastCall.who = "relay" /\ lastCall.ev = "connection"
  /\ lastCall.data = [clientType |-> "viewer", sessionId |-> ""]
  /\ nextSock = 3
  /\ DOMAIN sockets = {1}
  /\ sockets[1].clientType = "cli"
  /\ DOMAIN sessions = {RingSession}
  /\ objs[sessions[RingSession]].cliSocketId = 1
  /\ DOMAIN objs[sessions[RingSession]].viewers = {}

(* ------------------------------------------------------------------ *)
(* Bindings: producers, daemons and viewers of two sessions come and    *)
(* go; the producers send frames, the viewers ask for control and for   *)
(* the history and send input                                           *)
(* ------------------------------------------------------------------ *)
BindingsNext ==
  /\ \/ \E pk \in WireKeys : CliConnect(RingSession, pk, NoSecret)
     \/ \E sid \in {RingSession, "s2"} : ViewerConnect(sid, encodeBase64(2), NoNick, NoSecret)
     \/ DaemonConnect(NoSecret)
     \/ \E k \in DOMAIN sockets :
          \/ SessionAttached(k, [sessionId |-> RingSession, publicKey |-> encodeBase64(1),
                                 encrypted |-> TRUE])
          \/ DaemonDisconnect(k)
          \/ RelayDisconnect(k)
          \/ RequestControl(k)
          \/ GetHistory(k)
          \/ RelayInput(k, [keys |-> "ls", type |-> "text"])
          \/ \E e \in WireEnvelopes : RelayEncryptedInput(k, [encrypted |-> e])
          \/ /\ IsSessionSocket(k)
             /\ NextSeq(SessOf(k).outputHistory) <= MaxFrames
             /\ RelayOutput(k, RingEvent(k))
          \/ /\ IsSessionSocket(k)
             /\ NextSeq(SessOf(k).encryptedHistory) <= MaxFrames
             /\ \E e \in WireEnvelopes : RelayOutputHistory(k, RingHistoryEvent(k, e))
          \/ \E v \in 1..MaxSockets, e \in WireEnvelopes :
               \/ RelayEncryptedOutput(k, [viewerId |-> v, encrypted |-> e, seq |-> 1,
                                           timestamp |-> now])
               \/ DaemonEncryptedOutput(k, [sessionId |-> RingSession, viewerId |-> v,
                                            encrypted |-> e, seq |-> 1, timestamp |-> now])
  /\ TrackIdle
  /\ UNCHANGED <<endVars, cmdVars>>

SpecBindings == Init /\ [][BindingsNext]_vars

\* C24: a viewer input that passes the control-lock gate is forwarded to the
\* session's producer binding, the producer connection or the daemon that attached
\* the session, as input or encrypted-input; only when neither is bound does the
\* sender, and only the sender, get error{message:'CLI not connected'}, and nothing
\* is forwarded.
C24_InputReachesBinding ==
  [][\A k \in DOMAIN sockets :
       (/\ IsViewer(k)
        /\ ~HeldByOther(k)
        /\ \/ \E data \in InputData : RelayInput(k, data)
           \/ \E e \in WireEnvelopes : RelayEncryptedInput(k, [encrypted |-> e]))
       => LET session == SessOf(k)
              bound == {session.cliSocketId, session.daemonSocketId} \ {NoSocket}
          IN IF bound # {}
             THEN \E i \in DOMAIN emitted' :
                    /\ emitted'[i].ev \in {"input", "encrypted-input"}
                    /\ emitted'[i].to # {}
                    /\ emitted'[i].to \subseteq bound
             ELSE /\ ~Forwards(emitted')
                  /\ \E i \in DOMAIN emitted' :
                       emitted'[i] = Emit({k}, "error", [message |-> "CLI not connected"])
     ]_vars

\* C25: processing the disconnect of a session's bound producer changes only
\* cliSocketId and cliPublicKey, which become null, and broadcasts
\* cli-status{connected:false} to the session's viewers; controlLock, viewers,
\* lastOutput, both history rings and the encrypted flag stay as they were, and so
\* does every other session.
C25_ProducerDisconnectFrame ==
  [][\A k \in DOMAIN sockets :
       (/\ IsSessionSocket(k)
        /\ sockets[k].clientType = "cli"
        /\ SessOf(k).cliSocketId = k
        /\ RelayDisconnect(k))
       => LET o == sockets[k].obj
          IN /\ sessions' = sessions
             /\ \A x \in DOMAIN objs' :
                  objs'[x] = IF x = o THEN [objs[o] EXCEPT !.cliSocketId = NoSocket,
                                                           !.cliPublicKey = NoKey]
                             ELSE objs[x]
             /\ Len(emitted') = 1
             /\ emitted'[1].ev = "cli-status"
             /\ emitted'[1].data = CliStatus(FALSE, NoKey, objs[o].encrypted)
             /\ DOMAIN objs[o].viewers \subseteq emitted'[1].to
             /\ emitted'[1].to \subseteq Room(sockets[k].sessionId) \ {k}]_vars

\* the bound producer of a session with a viewer who holds the lock and with frames
\* in the ring has just disconnected
C25_Witness ==
  \E sid \in DOMAIN sessions :
    LET session == objs[sessions[sid]]
    IN /\ session.cliSocketId = NoSocket
       /\ session.controlLock # Null
       /\ session.controlLock.holderId \in DOMAIN session.viewers
       /\ session.lastOutput # Null
       /\ session.outputHistory # << >>
       /\ Len(emitted) = 1
       /\ emitted[1].ev = "cli-status"
       /\ ~emitted[1].data.connected
       /\ emitted[1].to = DOMAIN session.viewers

\* C26: whenever a session's controlLock is not null, its holderId is a viewer in
\* that session's viewers map: a producer connection never holds the lock.  When a
\* viewer's disconnect has been processed the viewer is out of viewers, does not
\* hold the lock, and the bound producer has been sent viewer-left{viewerId}.
C26_HolderIsViewer ==
  /\ [](\A o \in DOMAIN objs :
          objs[o].controlLock # Null =>
            /\ objs[o].controlLock.holderId \in DOMAIN objs[o].viewers
            /\ objs[o].controlLock.holderId \in DOMAIN sockets
            /\ sockets[objs[o].controlLock.holderId].clientType = "viewer")
  /\ [][\A k \in DOMAIN sockets :
          (IsViewer(k) /\ RelayDisconnect(k))
          => LET o == sockets[k].obj
                 bound == {objs[o].cliSocketId, objs[o].daemonSocketId} \ {NoSocket}
             IN /\ o \in DOMAIN objs' =>
                     /\ k \notin DOMAIN objs'[o].viewers
                     /\ objs'[o].controlLock # Null => objs'[o].controlLock.holderId # k
                /\ bound # {} =>
                     \E i \in DOMAIN emitted' :
                       /\ emitted'[i].ev = "viewer-left"
                       /\ emitted'[i].to # {}
                       /\ emitted'[i].to \subseteq bound
                       /\ emitted'[i].data.viewerId = k]_vars

\* C27: relaying an encrypted-output of a producer or a daemon changes no relay
\* state (lastOutput and both history rings are as before) and the message goes to
\* one connection at most, the one named by viewerId, and to no other viewer of the
\* session.
C27_RoutedNotRetained ==
  [][\A k \in DOMAIN sockets, v \in 1..MaxSockets, e \in WireEnvelopes :
       LET data == [viewerId |-> v, encrypted |-> e, seq |-> 1, timestamp |-> now]
       IN (\/ sockets[k].clientType = "cli" /\ RelayEncryptedOutput(k, data)
           \/ DaemonEncryptedOutput(k, [sessionId |-> RingSession] @@ data))
          => /\ objs' = objs
             /\ sessions' = sessions
             /\ emitted' = << Emit({v} \cap DOMAIN sockets, "encrypted-output",
                                   [encrypted |-> e, seq |-> 1, timestamp |-> now]) >>]_vars

\* a producer's frame for one of the two viewers of its session has gone to that
\* viewer alone
C27_Witness ==
  \E sid \in DOMAIN sessions :
    LET session == objs[sessions[sid]]
    IN /\ session.cliSocketId # NoSocket
       /\ Cardinality(DOMAIN session.viewers) = 2
       /\ Len(emitted) = 1
       /\ emitted[1].ev = "encrypted-output"
       /\ \E v \in DOMAIN session.viewers : emitted[1].to = {v}
       /\ session.encryptedHistory = << >>
       /\ session.lastOutput = Null

\* C28: session isolation of routed frames.  An encrypted-output sent by the
\* producer or the daemon of session S is delivered only to a viewer that is in S:
\* never to a connection of another session or to one that is not a viewer.
C28_FramesStayInSession ==
  [][\A k \in DOMAIN sockets, v \in 1..MaxSockets, e \in WireEnvelopes :
       LET data == [viewerId |-> v, encrypted |-> e, seq |-> 1, timestamp |-> now]
           sid == IF IsDaemonSocket(k) THEN RingSession ELSE sockets[k].sessionId
       IN (\/ sockets[k].clientType = "cli" /\ RelayEncryptedOutput(k, data)
           \/ DaemonEncryptedOutput(k, [sessionId |-> RingSession] @@ data))
          => \A i \in DOMAIN emitted' :
               emitted'[i].to \subseteq
                 (IF sid \in DOMAIN sessions THEN DOMAIN objs[sessions[sid]].viewers ELSE {})
     ]_vars

\* C29: history before live frames.  The reply to a viewer's get-history is one
\* message to that viewer, history with the plaintext ring when the session is
\* unencrypted and encrypted-history with the encrypted ring when it is encrypted,
\* holding the ring as it is when the request is processed, in arrival order.  Every
\* output a handler emits to a connected viewer is the frame that handler has just
\* received, so what follows the batch on the viewer's connection was received
\* after the request.
C29_HistoryThenLive ==
  /\ [][\A k \in DOMAIN sockets :
          (IsViewer(k) /\ GetHistory(k))
          => LET session == SessOf(k)
                 ring == IF session.encrypted THEN session.encryptedHistory
                         ELSE session.outputHistory
             IN /\ emitted' = << Emit({k}, IF session.encrypted THEN "encrypted-history"
                                           ELSE "history", ring) >>
                /\ \A i, j \in DOMAIN ring : i < j => ring[i].seq < ring[j].seq
                /\ objs' = objs]_vars
  /\ [][\A k \in DOMAIN sockets, i \in DOMAIN emitted' :
          (IsViewer(k) /\ emitted'[i].ev = "output" /\ k \in emitted'[i].to)
          => /\ \A j \in DOMAIN SessOf(k).outputHistory :
                  SessOf(k).outputHistory[j] # emitted'[i].data
             /\ objs'[sockets[k].obj].lastOutput = emitted'[i].data]_vars

\* a viewer has just been sent the plaintext ring with two frames in one message
C29_Witness ==
  \E k \in DOMAIN sockets :
    /\ IsViewer(k)
    /\ Len(SessOf(k).outputHistory) = 2
    /\ emitted = << Emit({k}, "history", SessOf(k).outputHistory) >>

(* ------------------------------------------------------------------ *)
(* Owners: producers and daemons of two users create, attach and leave  *)
(* sessions, which are reaped and created again                         *)
(* ------------------------------------------------------------------ *)
OwnerSecrets == {"u1", "u2"}

OwnerNext ==
  /\ \/ \E sid \in ReapSessions, secret \in OwnerSecrets : CliConnect(sid, encodeBase64(1), secret)
     \/ \E secret \in OwnerSecrets : DaemonConnect(secret)
     \/ ReapDaemon
     \/ ReapLeaves
  /\ TrackIdle
  /\ UNCHANGED <<endVars, cmdVars>>

SpecOwners == Init /\ [][OwnerNext]_vars

\* C17: the list POST /api/user/sessions returns for userSecret s holds exactly the
\* sessions in the directory whose userId is hash(s): never a session of another
\* user or of nobody, also after a session id was reaped and created again, or
\* attached again, by another owner; a secret that owns nothing gets an empty list.
C17_OwnSessionsOnly ==
  \A secret \in OwnerSecrets :
    UserSessionsList(secret) =
      {sid \in DOMAIN sessions : objs[sessions[sid]].userId = deriveUserId(secret)}

(* ------------------------------------------------------------------ *)
(* Commands: callers post daemon commands, daemons come, answer and go  *)
(* ------------------------------------------------------------------ *)
\* the cli-response messages a daemon sends about the command id
CliResponses(commandId) ==
  {[commandId |-> commandId, success |-> TRUE, data |-> "sessions"],
   [commandId |-> commandId, success |-> FALSE, error |-> "unknown command"],
   [commandId |-> commandId, success |-> FALSE]}

\* the ids a daemon may answer: those of the requests forwarded so far, and one never made
Answerable ==
  {CommandId(0)} \cup
  {commandLog[n].commandId : n \in {m \in DOMAIN commandLog :
                                     /\ commandLog[m].forwarded
                                     /\ Len(commandLog[m].responses) < MaxResponses}}

\* the clock advances by half the command timeout; a timeout that is due runs first
CommandTick ==
  /\ now + COMMAND_TIMEOUT \div 2 <= CommandTicks * (COMMAND_TIMEOUT \div 2)
  /\ \A t \in timers : t.due > now
  /\ now' = now + COMMAND_TIMEOUT \div 2
  /\ emitted' = << >>
  /\ UNCHANGED <<sessions, objs, sockets, cliDaemons, userSessions, timers, nextSock, cmdVars>>

CommandNext ==
  /\ \/ DaemonConnect(NoSecret) /\ UNCHANGED cmdVars
     \/ \E k \in DOMAIN sockets : DaemonDisconnect(k) /\ UNCHANGED cmdVars
     \/ \E command \in {"", "list"} : Len(commandLog) < MaxCommands /\ PostDaemonCommand(command)
     \/ \E k \in DOMAIN sockets, commandId \in Answerable :
          \E response \in CliResponses(commandId) : CliResponse(k, response)
     \/ \E t \in timers : CommandTimeout(t)
     \/ CommandTick
  /\ TrackIdle
  /\ UNCHANGED <<endVars, daemonManager>>

SpecCommands == Init /\ [][CommandNext]_vars

\* the deadline of a forwarded command
Deadline(c) == c.at + COMMAND_TIMEOUT

\* C18: every POST /api/daemon/command the relay forwards to a daemon completes
\* exactly once: with the daemon's result ({success:true,data} or {error}) if a
\* cli-response with its commandId arrives within 10 s, otherwise with
\* {error:'Command timeout'} at 10 s; the pendingCommands entry is there exactly
\* while the command has not completed, and a cli-response that arrives after the
\* completion changes nothing for the caller.
C18_CompletesOnce ==
  /\ [](\A n \in DOMAIN commandLog :
          LET c == commandLog[n]
          IN c.forwarded =>
               /\ Len(c.results) <= 1
               /\ now > Deadline(c) => Len(c.results) = 1
               /\ (c.commandId \in DOMAIN pendingCommands) <=> (c.results = << >>)
               /\ c.results # << >> =>
                    LET r == c.results[1]
                        first == c.responses[1]
                    IN /\ (c.responses # << >> /\ first.at < Deadline(c)) =>
                            (r.body = CommandResult(first.response) /\ r.at = first.at)
                       /\ (c.responses = << >> \/ first.at > Deadline(c)) =>
                            (r.body = [error |-> "Command timeout"] /\ r.at = Deadline(c))
                       /\ \/ r.body = [error |-> "Command timeout"] /\ r.at = Deadline(c)
                          \/ /\ c.responses # << >>
                             /\ r.body = CommandResult(first.response)
                             /\ r.at = first.at
                             /\ r.at <= Deadline(c))
  /\ [][\A n \in DOMAIN commandLog :
          commandLog[n].results # << >> => commandLog'[n].results = commandLog[n].results]_vars

\* two commands have completed, one with the daemon's result and one with the
\* timeout, and the daemon's answer to the second came after the timeout
C18_Witness ==
  /\ Len(commandLog) = 2
  /\ \A n \in 1..2 : commandLog[n].forwarded /\ Len(commandLog[n].results) = 1
  /\ commandLog[1].results[1].body = [success |-> TRUE, data |-> "sessions"]
  /\ commandLog[2].results[1].body = [error |-> "Command timeout"]
  /\ commandLog[2].responses # << >>
  /\ commandLog[2].responses[1].at > Deadline(commandLog[2])
  /\ pendingCommands = << >>

(* ------------------------------------------------------------------ *)
(* The capture: a caller starts, polls and stops one TmuxCapture while  *)
(* the pane changes                                                     *)
(* ------------------------------------------------------------------ *)
CaptureSnapshots == {"", "a", "b"}

CaptureIdle ==
  UNCHANGED <<relayVars, idleSince, cmdVars, wsClient, pages, toRelay, toClient, injected, got, owed,
              keysIn, joinSeq, typed>>

CaptureCall(op, snapshot, result) ==
  /\ capture' = result.capture
  /\ handed' = handed \o result.events
  /\ lastCall' = [op |-> op, snapshot |-> snapshot, emitted |-> Len(result.events)]
  /\ CaptureIdle

CallStart(snapshot) ==
  /\ capture.seq < CaptureFrames
  /\ CaptureCall("start", snapshot, CaptureStart(capture, snapshot))

CallPoll(snapshot) ==
  /\ capture.seq < CaptureFrames
  /\ CaptureCall("poll", snapshot, CapturePoll(capture, snapshot))

CallStop ==
  CaptureCall("stop", "", [capture |-> CaptureStop(capture), events |-> << >>])

CaptureNext ==
  \/ \E snapshot \in CaptureSnapshots : CallStart(snapshot)
  \/ \E snapshot \in CaptureSnapshots : CallPoll(snapshot)
  \/ CallStop

SpecCapture == Init /\ [][CaptureNext]_vars

\* C12: for any sequence of start, poll and stop calls, a capture whose snapshot
\* equals the previously captured snapshot emits no OutputEvent and leaves seq
\* unchanged; seq advances only when the captured snapshot differs from the last.
C12_Idempotent ==
  [][capture'.lastContent = capture.lastContent =>
       (handed' = handed /\ capture'.seq = capture.seq)]_vars

\* C12, amended: a poll whose snapshot equals the previously captured snapshot emits
\* no OutputEvent and leaves seq unchanged; seq advances, and an event is emitted,
\* only when a poll captures a snapshot that differs from the last one or when a
\* start of a capture that is not running captures a non-empty snapshot.
C12_PollIdempotent ==
  [][(handed' # handed \/ capture'.seq # capture.seq) =>
       \/ capture.running /\ capture'.lastContent # capture.lastContent
       \/ ~capture.running /\ capture'.running /\ capture'.lastContent # ""]_vars

\* a poll has just captured the snapshot the capture already held and emitted nothing
C12_Witness ==
  /\ lastCall = [op |-> "poll", snapshot |-> "a", emitted |-> 0]
  /\ capture.running
  /\ capture.lastContent = "a"
  /\ handed # << >>

EndSession == "s1"
PageKey(p) == MaxRuns + p          \* the key pair the page p draws

\* io.to(...).emit: every emitted message joins the queue of each connection it names
RECURSIVE Deliver(_, _)
Deliver(queues, out) ==
  IF out = << >> THEN queues
  ELSE Deliver([k \in DOMAIN queues |->
                  IF k \in Head(out).to
                  THEN Append(queues[k], Msg(Head(out).ev, Head(out).data))
                  ELSE queues[k]],
               Tail(out))

\* main: capture.start(event => wsClient.sendEncryptedOutput(event))
Callback(c, events, nonce) ==
  IF events = << >> THEN [client |-> c, out |-> << >>]
  ELSE sendEncryptedOutput(c, events[1], nonce)

\* history: the viewers whose secret the client holds when the capture emits the events
Owes(c, events) ==
  {[viewerId |-> c.sharedSecrets[i].key, secret |-> c.sharedSecrets[i].value,
    event |-> events[j], socket |-> c.socket] :
     i \in DOMAIN c.sharedSecrets, j \in DOMAIN events}

\* a step of a client: no relay handler runs
RelayIdle == UNCHANGED <<relayVars, idleSince>>

\* wsClient.connect() succeeds, also after a transport loss: the relay's connection
\* handler, then the client's 'connect' handler with main's onConnect
ProducerConnect(snapshot, nonce) ==
  /\ wsClient.socket = NoSocket
  /\ CliConnect(EndSession, publicKeyToBase64(wsClient.keyPair.publicKey), NoSecret)
  /\ LET id == nextSock
         connected == [wsClient EXCEPT !.socket = id]
         started == CaptureStart(capture, snapshot)
         sent == Callback(connected, started.events, nonce)
     IN /\ capture' = started.capture
        /\ wsClient' = sent.client
        /\ toRelay' = MapPut(toRelay, id, sent.out)
        /\ toClient' = Deliver(MapPut(toClient, id, << >>), emitted')
        /\ owed' = owed \cup Owes(connected, started.events)
        /\ handed' = handed \o started.events
  /\ TrackIdle
  /\ UNCHANGED <<pages, injected, got, keysIn, joinSeq, typed, lastCall, cmdVars>>

\* the capture's interval timer fires
ProducerPoll(snapshot, nonce) ==
  /\ capture.running
  /\ capture.seq < MaxFrames
  /\ LET polled == CapturePoll(capture, snapshot)
         sent == Callback(wsClient, polled.events, nonce)
     IN /\ capture' = polled.capture
        /\ wsClient' = sent.client
        /\ toRelay' = IF wsClient.socket = NoSocket THEN toRelay
                      ELSE [toRelay EXCEPT ![wsClient.socket] = @ \o sent.out]
        /\ owed' = owed \cup Owes(wsClient, polled.events)
        /\ handed' = handed \o polled.events
  /\ RelayIdle
  /\ UNCHANGED <<pages, toClient, injected, got, keysIn, joinSeq, typed, lastCall, cmdVars>>

\* the producer's connection is lost: both ends see 'disconnect', what was in flight is gone
ProducerDrop ==
  /\ wsClient.socket # NoSocket
  /\ RelayDisconnect(wsClient.socket)
  /\ wsClient' = [wsClient EXCEPT !.socket = NoSocket]
  /\ toRelay' = MapDel(toRelay, wsClient.socket)
  /\ toClient' = Deliver(MapDel(toClient, wsClient.socket), emitted')
  /\ TrackIdle
  /\ UNCHANGED <<cmdVars, handed, lastCall, capture, pages, injected, got, owed, keysIn, joinSeq, typed>>

\* the CLI process has ended and is started again on the same tmux session
ProducerRestart ==
  /\ wsClient.socket = NoSocket
  /\ capture.running
  /\ wsClient.run < MaxRuns
  /\ capture' = NewCapture
  /\ wsClient' = NewWSClient(wsClient.run + 1)
  /\ handed' = << >>
  /\ RelayIdle
  /\ UNCHANGED <<pages, toRelay, toClient, injected, got, owed, keysIn, joinSeq, typed, lastCall, cmdVars>>

\* the producer's socket dispatches the next message from the relay to its listeners
ProducerReceive(nonce) ==
  /\ wsClient.socket # NoSocket
  /\ toClient[wsClient.socket] # << >>
  /\ LET k == wsClient.socket
         m == Head(toClient[k])
         handled == CASE m.ev = "viewer-joined" -> OnViewerJoined(wsClient, m.data, nonce)
                      [] m.ev = "viewer-left" -> OnViewerLeft(wsClient, m.data)
                      [] m.ev = "encrypted-input" -> OnEncryptedInput(wsClient, m.data)
                      [] OTHER -> [client |-> wsClient, out |-> << >>]
     IN /\ wsClient' = handled.client
        /\ toRelay' = [toRelay EXCEPT ![k] = @ \o handled.out]
        /\ toClient' = [toClient EXCEPT ![k] = Tail(@)]
        /\ injected' = IF m.ev = "_decrypted-input"
                       THEN Append(injected, OnDecryptedInput(m.data))
                       ELSE injected
        /\ keysIn' = IF m.ev = "encrypted-input" /\ handled.out # << >>
                     THEN Append(keysIn, handled.out[1].data)
                     ELSE keysIn
  /\ RelayIdle
  /\ UNCHANGED <<cmdVars, handed, lastCall, capture, pages, got, owed, joinSeq, typed>>

\* the page p connects: connect() on first use, the socket's own reconnection later
ViewerJoin(p) ==
  /\ pages[p].socket = NoSocket
  /\ LET v == IF pages[p].keyPair = Null THEN PageConnect(pages[p], PageKey(p)) ELSE pages[p]
         id == nextSock
         connected == PageOnConnect(v, id)
     IN /\ ViewerConnect(EndSession, publicKeyToBase64(v.keyPair.publicKey), NoNick, NoSecret)
        /\ pages' = [pages EXCEPT ![p] = connected.page]
        /\ toRelay' = MapPut(toRelay, id, connected.out)
        /\ toClient' = Deliver(MapPut(toClient, id, << >>), emitted')
  /\ joinSeq' = [joinSeq EXCEPT ![p] = IF wsClient.lastOutputEvent = Null THEN 0
                                       ELSE wsClient.lastOutputEvent.seq]
  /\ TrackIdle
  /\ UNCHANGED <<cmdVars, handed, lastCall, capture, wsClient, injected, got, owed, keysIn, typed>>

\* the connection of the page p is lost
ViewerDrop(p) ==
  /\ pages[p].socket # NoSocket
  /\ RelayDisconnect(pages[p].socket)
  /\ pages' = [pages EXCEPT ![p] = PageOnDisconnect(@)]
  /\ toRelay' = MapDel(toRelay, pages[p].socket)
  /\ toClient' = Deliver(MapDel(toClient, pages[p].socket), emitted')
  /\ TrackIdle
  /\ UNCHANGED <<cmdVars, handed, lastCall, capture, wsClient, injected, got, owed, keysIn, joinSeq, typed>>

\* the socket of the page p dispatches the next message from the relay
ViewerReceive(p) ==
  /\ pages[p].socket # NoSocket
  /\ toClient[pages[p].socket] # << >>
  /\ LET k == pages[p].socket
         v == pages[p]
         m == Head(toClient[k])
     IN /\ pages' = [pages EXCEPT ![p] =
                       CASE m.ev = "cli-status" -> PageOnCliStatus(v, m.data)
                         [] m.ev = "control-status" -> updateControlStatus(v, m.data)
                         [] m.ev = "output" -> handleOutput(v, m.data, FALSE)
                         [] m.ev = "encrypted-output" -> PageOnEncryptedOutput(v, m.data)
                         [] m.ev = "history" -> PageOnHistory(v, m.data)
                         [] m.ev = "encrypted-history" -> PageOnEncryptedHistory(v, m.data)
                         [] OTHER -> v]
        /\ toClient' = [toClient EXCEPT ![k] = Tail(@)]
        /\ got' = IF m.ev \in {"output", "encrypted-output"}
                  THEN [got EXCEPT ![p] = Append(@, [socket |-> k, ev |-> m.ev, data |-> m.data])]
                  ELSE got
  /\ RelayIdle
  /\ UNCHANGED <<cmdVars, handed, lastCall, capture, wsClient, toRelay, injected, owed, keysIn, joinSeq, typed>>

\* a key is pressed in the page p
ViewerType(p, inputData, nonce) ==
  /\ typed < MaxKeys
  /\ pages[p].socket # NoSocket
  /\ ~(~pages[p].hasControl /\ pages[p].controlLocked)
  /\ toRelay' = [toRelay EXCEPT ![pages[p].socket] = @ \o sendInput(pages[p], inputData, nonce)]
  /\ typed' = typed + 1
  /\ RelayIdle
  /\ UNCHANGED <<cmdVars, handed, lastCall, capture, wsClient, pages, toClient, injected, got, owed, keysIn, joinSeq>>

\* the relay takes the next message of the connection k and runs its handler
RelayReceive(k) ==
  /\ k \in DOMAIN toRelay
  /\ toRelay[k] # << >>
  /\ LET m == Head(toRelay[k])
     IN CASE m.ev = "output" -> RelayOutput(k, m.data)
          [] m.ev = "encrypted-output" -> RelayEncryptedOutput(k, m.data)
          [] m.ev = "output-history" -> RelayOutputHistory(k, m.data)
          [] m.ev = "input" -> RelayInput(k, m.data)
          [] m.ev = "encrypted-input" -> RelayEncryptedInput(k, m.data)
          [] m.ev = "get-history" -> GetHistory(k)
          [] m.ev = "request-control" -> RequestControl(k)
          [] m.ev = "release-control" -> ReleaseControl(k)
          [] OTHER -> emitted' = << >> /\ RelayNoOp
  /\ toRelay' = [toRelay EXCEPT ![k] = Tail(@)]
  /\ toClient' = Deliver(toClient, emitted')
  /\ TrackIdle
  /\ UNCHANGED <<cmdVars, handed, lastCall, capture, wsClient, pages, injected, got, owed, keysIn, joinSeq, typed>>

\* nothing is in flight
Quiescent ==
  /\ \A k \in DOMAIN toRelay : toRelay[k] = << >>
  /\ \A k \in DOMAIN toClient : toClient[k] = << >>

(* ------------------------------------------------------------------ *)
(* Frames: the producer captures and sends, viewers come and go          *)
(* ------------------------------------------------------------------ *)
FramePages == {1}                  \* the pages in use while the producer restarts
FramesNext ==
  \/ \E snapshot \in Snapshots, nonce \in Nonces : ProducerConnect(snapshot, nonce)
  \/ \E snapshot \in Snapshots, nonce \in Nonces : ProducerPoll(snapshot, nonce)
  \/ ProducerDrop
  \/ ProducerRestart
  \/ \E nonce \in Nonces : ProducerReceive(nonce)
  \/ \E p \in FramePages : ViewerJoin(p)
  \/ \E p \in FramePages : ViewerDrop(p)
  \/ \E p \in FramePages : ViewerReceive(p)
  \/ \E k \in DOMAIN toRelay : RelayReceive(k)

SpecFrames == Init /\ [][FramesNext]_vars

(* ------------------------------------------------------------------ *)
(* Envelopes: a caller encrypts a message and the envelope is opened,   *)
(* directly and by the handlers that receive envelopes, under the same  *)
(* and under other shared secrets                                       *)
(* ------------------------------------------------------------------ *)
\* the shared secrets of the pairs among the first EnvelopeKeys key pairs
EnvelopeSecrets ==
  {computeSharedSecret(generateKeyPair(a).secretKey, generateKeyPair(b).publicKey) :
     a \in 1..EnvelopeKeys, b \in 1..EnvelopeKeys} \
  {computeSharedSecret(generateKeyPair(a).secretKey, generateKeyPair(a).publicKey) :
     a \in 1..EnvelopeKeys}

\* encrypt(message, sharedSecret), the nonce being what nacl.randomBytes drew
CallEncrypt(message, sharedSecret, nonce) ==
  /\ lastCall' = [op |-> "encrypt", message |-> message, secret |-> sharedSecret,
                  envelope |-> encrypt(message, sharedSecret, nonce),
                  opened |-> {}, inputs |-> {}, outputs |-> {}]
  /\ UNCHANGED <<relayVars, idleSince, cmdVars, capture, wsClient, pages, toRelay, toClient,
                 injected, got, owed, keysIn, joinSeq, typed, handed>>

\* decrypt and decryptToString of the envelope under the secret
CallDecrypt(sharedSecret) ==
  /\ lastCall # Null
  /\ lastCall' = [lastCall EXCEPT !.opened = @ \cup
                    {[with |-> sharedSecret,
                      decrypted |-> decrypt(lastCall.envelope, sharedSecret),
                      text |-> decryptToString(lastCall.envelope, sharedSecret)]}]
  /\ UNCHANGED <<relayVars, idleSince, cmdVars, capture, wsClient, pages, toRelay, toClient,
                 injected, got, owed, keysIn, joinSeq, typed, handed>>

\* the producer's 'encrypted-input' handler gets the envelope from viewer 1, for
\* whom it holds the secret
CallInput(sharedSecret) ==
  /\ lastCall # Null
  /\ lastCall.message \in {JSONstringify(d) : d \in InputData}
  /\ LET c == [wsClient EXCEPT !.sharedSecrets = MapSet(<< >>, 1, sharedSecret)]
         data == [viewerId |-> 1, encrypted |-> lastCall.envelope]
     IN lastCall' = [lastCall EXCEPT !.inputs = @ \cup
                       {[with |-> sharedSecret, out |-> OnEncryptedInput(c, data).out]}]
  /\ UNCHANGED <<relayVars, idleSince, cmdVars, capture, wsClient, pages, toRelay, toClient,
                 injected, got, owed, keysIn, joinSeq, typed, handed>>

\* a page's 'encrypted-output' handler gets the envelope while it holds the secret
CallOutput(sharedSecret) ==
  /\ lastCall # Null
  /\ lastCall.message \notin {JSONstringify(d) : d \in InputData}
  /\ LET v == [NewPage EXCEPT !.sharedSecret = sharedSecret, !.isEncrypted = TRUE]
         event == JSONparse(lastCall.message)
         data == [encrypted |-> lastCall.envelope, seq |-> event.seq,
                  timestamp |-> event.timestamp]
     IN lastCall' = [lastCall EXCEPT !.outputs = @ \cup
                       {[with |-> sharedSecret, page |-> PageOnEncryptedOutput(v, data)]}]
  /\ UNCHANGED <<relayVars, idleSince, cmdVars, capture, wsClient, pages, toRelay, toClient,
                 injected, got, owed, keysIn, joinSeq, typed, handed>>

EnvelopeNext ==
  \/ \E message \in {JSONstringify(d) : d \in InputData}
                      \cup {JSONstringify(OutputEvent(seq, "a")) : seq \in 1..2},
        sharedSecret \in EnvelopeSecrets, nonce \in {"n1", "n2"} :
       CallEncrypt(message, sharedSecret, nonce)
  \/ \E sharedSecret \in EnvelopeSecrets : CallDecrypt(sharedSecret)
  \/ \E sharedSecret \in EnvelopeSecrets : CallInput(sharedSecret)
  \/ \E sharedSecret \in EnvelopeSecrets : CallOutput(sharedSecret)

SpecEnvelope == Init /\ [][EnvelopeNext]_vars

PairNext ==
  \/ \E nonce \in Nonces : ProducerConnect("a", nonce)
  \/ \E snapshot \in Snapshots, nonce \in Nonces : ProducerPoll(snapshot, nonce)
  \/ ProducerDrop
  \/ \E nonce \in Nonces : ProducerReceive(nonce)
  \/ \E p \in PageIds : ViewerJoin(p)
  \/ \E p \in PageIds : ViewerReceive(p)
  \/ \E k \in DOMAIN toRelay : RelayReceive(k)

SpecPair == Init /\ [][PairNext]_vars

(* ------------------------------------------------------------------ *)
(* Keys: viewers type, the producer receives                            *)
(* ------------------------------------------------------------------ *)
KeysNext ==
  \/ \E nonce \in Nonces : ProducerConnect("", nonce)
  \/ ProducerDrop
  \/ \E nonce \in Nonces : ProducerReceive(nonce)
  \/ \E p \in PageIds : ViewerJoin(p)
  \/ \E p \in PageIds : ViewerDrop(p)
  \/ \E p \in PageIds : ViewerReceive(p)
  \/ \E p \in PageIds, inputData \in InputData, nonce \in Nonces : ViewerType(p, inputData, nonce)
  \/ \E k \in DOMAIN toRelay : RelayReceive(k)

SpecKeys == Init /\ [][KeysNext]_vars

(* ------------------------------------------------------------------ *)
(* The producers under an arbitrary relay: the daemon and the single-   *)
(* session client get commands, viewers and inputs, attached panes      *)
(* change                                                               *)
(* ------------------------------------------------------------------ *)
TmuxNames == {"s1", "s2"}
\* the cli-command messages: commands the daemon knows and one it does not, with and
\* without a name
DaemonCommands ==
  {[commandId |-> id, command |-> command, params |-> [name |-> name]] :
     id \in {"cmd_1", "cmd_2"},
     command \in {"list-sessions", "create-session", "attach-session", "detach-session", "kill-session"},
     name \in TmuxNames \cup {""}}
\* the key pairs a producer may have: the client's and the daemon's
ProducerKeys == {1} \cup {DaemonKey(n) : n \in 1..MaxAttaches}
\* envelopes a page has sealed for a producer key: an input, and a text that is no JSON
SealedInputs ==
  {encrypt(message,
           computeSharedSecret(generateKeyPair(PageKey(p)).secretKey, generateKeyPair(k).publicKey),
           nonce) :
     message \in {JSONstringify([keys |-> "ls", type |-> "text"]), <<"text", "ls">>},
     p \in PageIds, k \in ProducerKeys, nonce \in Nonces}
\* what the relay sends a producer about viewers
ViewerMessages ==
  {Msg("viewer-joined",
       [sessionId |-> name, viewerId |-> p,
        publicKey |-> IF keyed THEN publicKeyToBase64(generateKeyPair(PageKey(p)).publicKey)
                      ELSE NoKey]) :
     name \in TmuxNames, p \in PageIds, keyed \in BOOLEAN}
  \cup {Msg("viewer-left", [sessionId |-> name, viewerId |-> p]) : name \in TmuxNames, p \in PageIds}
  \cup {Msg("encrypted-input", [sessionId |-> name, viewerId |-> p, encrypted |-> e]) :
          name \in TmuxNames, p \in PageIds, e \in SealedInputs}

\* a handler of the daemon has run
DaemonRan(m, did) ==
  /\ daemonManager' = did.daemon
  /\ injected' = injected \o did.keys
  /\ lastCall' = [who |-> "daemon", ev |-> m.ev, data |-> m.data, out |-> did.out]
  /\ UNCHANGED <<relayVars, idleSince, pendingCommands, commandLog, capture, wsClient, pages,
                 toRelay, toClient, got, owed, keysIn, joinSeq, typed, handed>>

\* the daemon's socket connects, for the first time or again, as connection id: 'connect'
\* (the CLI runs in daemon mode or with a single session, not both)
DaemonOnConnect(id) ==
  /\ daemonManager.socket = NoSocket
  /\ wsClient = NewWSClient(1)
  /\ LET d == [daemonManager EXCEPT !.socket = id]
     IN DaemonRan(Msg("connect", Null), Did(d, broadcastActiveSessionsList(d), << >>))

\* the daemon's transport is lost: 'disconnect'
DaemonOnDisconnect ==
  /\ daemonManager.socket # NoSocket
  /\ DaemonRan(Msg("disconnect", Null),
               Did([daemonManager EXCEPT !.socket = NoSocket], << >>, << >>))

\* the daemon's socket dispatches the message m
DaemonHears(m, snapshot, nonce, throws) ==
  /\ daemonManager.socket # NoSocket
  /\ DaemonRan(m,
               CASE m.ev = "cli-command" -> handleCommand(daemonManager, m.data, snapshot, nonce, throws)
                 [] m.ev = "viewer-joined" -> handleViewerJoined(daemonManager, m.data, nonce)
                 [] m.ev = "viewer-left" -> handleViewerLeft(daemonManager, m.data)
                 [] m.ev = "encrypted-input" -> handleEncryptedInput(daemonManager, m.data)
                 [] OTHER -> Did(daemonManager, << >>, << >>))

\* the interval timer of the capture of an attached session fires
DaemonPoll(name, snapshot, nonce) ==
  /\ MapHas(daemonManager.activeSessions, name)
  /\ LET session == MapGet(daemonManager.activeSessions, name)
         polled == CapturePoll(session.capture, snapshot)
         d == [daemonManager EXCEPT !.activeSessions =
                 MapSet(@, name, [session EXCEPT !.capture = polled.capture])]
     IN /\ session.capture.running
        /\ session.capture.seq < MaxFrames
        /\ DaemonRan(Msg("poll", [sessionId |-> name]), DaemonCallback(d, name, polled.events, nonce))

\* the single-session client's socket dispatches the message m
ClientHears(m, nonce) ==
  /\ daemonManager = NewDaemon
  /\ LET c == [wsClient EXCEPT !.socket = 1]
         handled == CASE m.ev = "viewer-joined" -> OnViewerJoined(c, m.data, nonce)
                      [] m.ev = "viewer-left" -> OnViewerLeft(c, m.data)
                      [] m.ev = "encrypted-input" -> OnEncryptedInput(c, m.data)
                      [] OTHER -> [client |-> c, out |-> << >>]
     IN /\ wsClient' = handled.client
        /\ lastCall' = [who |-> "client", ev |-> m.ev, data |-> m.data, out |-> handled.out]
  /\ UNCHANGED <<relayVars, idleSince, cmdVars, capture, pages, toRelay, toClient, injected,
                 got, owed, keysIn, joinSeq, typed, handed>>

DaemonNext ==
  \/ DaemonOnConnect(1)
  \/ DaemonOnDisconnect
  \/ \E msg \in DaemonCommands, snapshot \in Snapshots, nonce \in Nonces, throws \in BOOLEAN :
       /\ (msg.command = "attach-session") => daemonManager.drawn < MaxAttaches
       /\ (msg.command # "attach-session") => snapshot = ""
       /\ (msg.command # "create-session") => ~throws
       /\ DaemonHears(Msg("cli-command", msg), snapshot, nonce, throws)
  \/ \E m \in ViewerMessages, nonce \in Nonces :
       /\ Len(injected) < MaxKeys
       /\ DaemonHears(m, "", nonce, FALSE)
  \/ \E name \in TmuxNames, snapshot \in Snapshots, nonce \in Nonces : DaemonPoll(name, snapshot, nonce)
  \/ \E m \in ViewerMessages, nonce \in Nonces :
       /\ (m.ev = "viewer-joined") => m.data.publicKey # NoKey
       /\ ClientHears(m, nonce)

SpecDaemon == Init /\ [][DaemonNext]_vars

\* an encrypted-input that a producer holding these secrets cannot use: it has no
\* secret for the viewer, the envelope does not open, or what it holds is no JSON
CryptoFault(secrets, data) ==
  \/ ~MapHas(secrets, data.viewerId)
  \/ decrypt(data.encrypted, MapGet(secrets, data.viewerId)) = NoBytes
  \/ ~IsJSON(decryptToString(data.encrypted, MapGet(secrets, data.viewerId)))

Attached(name) == MapHas(daemonManager.activeSessions, name)

\* the message whose handler this step has run
Heard == Msg(lastCall'.ev, lastCall'.data)

\* C34: crypto faults are dropped at the producer.  An encrypted-input for which the
\* producer has no shared secret, whose envelope does not open under the viewer's
\* secret or whose plaintext is no JSON injects no key, leaves the producer (its
\* secrets and captures) as it was and makes it emit nothing: so for the daemon's
\* handler and for the single-session client's.
C34_CryptoFaultsDropped ==
  [][\A nonce \in Nonces :
       lastCall'.ev = "encrypted-input" =>
         /\ (/\ DaemonHears(Heard, "", nonce, FALSE)
             /\ Attached(Heard.data.sessionId)
             /\ CryptoFault(MapGet(daemonManager.activeSessions, Heard.data.sessionId).sharedSecrets,
                            Heard.data))
            => (/\ daemonManager' = daemonManager
                /\ injected' = injected
                /\ lastCall'.out = << >>)
         /\ (ClientHears(Heard, nonce) /\ CryptoFault(wsClient.sharedSecrets, Heard.data))
            => (/\ wsClient'.sharedSecrets = wsClient.sharedSecrets
                /\ wsClient'.lastOutputEvent = wsClient.lastOutputEvent
                /\ capture' = capture
                /\ injected' = injected
                /\ lastCall'.out = << >>)
     ]_vars

\* C34 witness: the daemon has just dropped an encrypted-input of a paired viewer
\* whose envelope opens under the viewer's secret to a text that is no JSON.
C34_Witness ==
  /\ lastCall # Null
  /\ lastCall.who = "daemon" /\ lastCall.ev = "encrypted-input" /\ lastCall.out = << >>
  /\ injected = << >>
  /\ Attached(lastCall.data.sessionId)
  /\ LET secrets == MapGet(daemonManager.activeSessions, lastCall.data.sessionId).sharedSecrets
     IN /\ MapHas(secrets, lastCall.data.viewerId)
        /\ decrypt(lastCall.data.encrypted, MapGet(secrets, lastCall.data.viewerId)) # NoBytes
        /\ CryptoFault(secrets, lastCall.data)

\* C35: detach-session{name} of an attached session takes the session (its capture,
\* key pair and shared secrets) out of activeSessions and emits session-detached{name}
\* and a success response; of a session that is not attached it answers success:false
\* and changes nothing.  The daemon emits encrypted-output only for sessions it has
\* attached, and viewer-joined or encrypted-input for a session that is not attached
\* changes nothing and emits nothing.
C35_DetachedIsSilent ==
  /\ [](lastCall # Null /\ lastCall.who = "daemon" =>
          \A i \in DOMAIN lastCall.out :
            lastCall.out[i].ev = "encrypted-output" => Attached(lastCall.out[i].data.sessionId))
  /\ [][\A nonce \in Nonces :
          /\ LET msg == Heard.data
             IN (Heard.ev = "cli-command" /\ msg.command = "detach-session" /\ msg.params.name # ""
                   /\ DaemonHears(Heard, "", nonce, FALSE))
               => IF Attached(msg.params.name)
                  THEN /\ daemonManager' = [daemonManager EXCEPT !.activeSessions =
                                              MapDelete(@, msg.params.name)]
                       /\ lastCall'.out =
                            << Msg("session-detached", [sessionId |-> msg.params.name]),
                               Msg("cli-response", Done(msg.commandId, [name |-> msg.params.name])) >>
                  ELSE /\ daemonManager' = daemonManager
                       /\ Len(lastCall'.out) = 1
                       /\ lastCall'.out[1].ev = "cli-response"
                       /\ ~lastCall'.out[1].data.success
          /\ (Heard.ev \in {"viewer-joined", "encrypted-input"} /\ ~Attached(Heard.data.sessionId)
                 /\ DaemonHears(Heard, "", nonce, FALSE))
               => (/\ daemonManager' = daemonManager
                   /\ injected' = injected
                   /\ lastCall'.out = << >>)
       ]_vars

\* C35 witness: s1, the only tmux session there is, was attached and is no longer,
\* and an encrypted-input for it has just been ignored.
C35_Witness ==
  /\ lastCall # Null
  /\ lastCall.who = "daemon" /\ lastCall.ev = "encrypted-input" /\ lastCall.out = << >>
  /\ lastCall.data.sessionId = "s1"
  /\ daemonManager.drawn = 1 /\ daemonManager.tmux = {"s1"}
  /\ daemonManager.activeSessions = << >>
  /\ injected = << >>

\* the command fails: it is unknown, lacks the name it needs, names a session that
\* exists already (create), that does not exist or is attached (attach), that is not
\* attached (detach), or tmux fails to create the session
CommandFails(msg, throws) ==
  \/ msg.command \notin {"list-sessions", "create-session", "attach-session", "detach-session"}
  \/ msg.command # "list-sessions" /\ msg.params.name = ""
  \/ msg.command = "create-session" /\ (msg.params.name \in daemonManager.tmux \/ throws)
  \/ msg.command = "attach-session"
       /\ (msg.params.name \notin daemonManager.tmux \/ Attached(msg.params.name))
  \/ msg.command = "detach-session" /\ ~Attached(msg.params.name)

\* C36: for every cli-command the daemon emits exactly one cli-response, with the
\* commandId of the command.  A command that fails is answered success:false with an
\* error and leaves activeSessions as it was; any other is answered success:true.
C36_OneResponsePerCommand ==
  [][\A snapshot \in Snapshots, nonce \in Nonces, throws \in BOOLEAN :
       (/\ Heard.ev = "cli-command"
        /\ (Heard.data.command # "attach-session") => snapshot = ""
        /\ (Heard.data.command # "create-session") => ~throws
        /\ DaemonHears(Heard, snapshot, nonce, throws))
       => LET IsResponse(m) == m.ev = "cli-response"
              msg == Heard.data
              responses == SelectSeq(lastCall'.out, IsResponse)
          IN /\ Len(responses) = 1
             /\ responses[1].data.commandId = msg.commandId
             /\ responses[1].data.success = ~CommandFails(msg, throws)
             /\ CommandFails(msg, throws)
                  => /\ "error" \in DOMAIN responses[1].data
                     /\ daemonManager'.activeSessions = daemonManager.activeSessions
     ]_vars

\* C36 witness: tmux has failed to create a session while another is attached, and
\* the one thing the daemon emitted is the failure, under the command's id.
C36_Witness ==
  /\ lastCall # Null
  /\ lastCall.who = "daemon" /\ lastCall.ev = "cli-command"
  /\ lastCall.data.command = "create-session"
  /\ lastCall.data.params.name \notin daemonManager.tmux \cup {""}
  /\ lastCall.out = << Msg("cli-response", Failed(lastCall.data.commandId, "Command failed")) >>
  /\ daemonManager.activeSessions # << >>

(* ------------------------------------------------------------------ *)
(* Daemon reconnect: the daemon attaches and detaches a session, loses  *)
(* its transport and connects again, while a viewer page comes and goes *)
(* ------------------------------------------------------------------ *)
\* the daemon's transport is up (again): the relay's connection callback, then the
\* daemon's 'connect' handler
DaemonUp ==
  /\ daemonManager.socket = NoSocket
  /\ DaemonConnect(NoSecret)
  /\ daemonManager' = [daemonManager EXCEPT !.socket = nextSock]
  /\ toRelay' = MapPut(toRelay, nextSock, broadcastActiveSessionsList(daemonManager))
  /\ toClient' = MapPut(toClient, nextSock, << >>)
  /\ lastCall' = [who |-> "daemon", ev |-> "connect", data |-> [again |-> lastCall # Null],
                  out |-> broadcastActiveSessionsList(daemonManager)]
  /\ TrackIdle
  /\ UNCHANGED <<pendingCommands, commandLog, capture, wsClient, pages, injected, got, owed, keysIn,
                 joinSeq, typed, handed>>

\* the daemon's transport is lost: both ends see 'disconnect'
DaemonDown ==
  /\ daemonManager.socket # NoSocket
  /\ DaemonDisconnect(daemonManager.socket)
  /\ daemonManager' = [daemonManager EXCEPT !.socket = NoSocket]
  /\ toRelay' = MapDel(toRelay, daemonManager.socket)
  /\ toClient' = Deliver(MapDel(toClient, daemonManager.socket), emitted')
  /\ TrackIdle
  /\ UNCHANGED <<pendingCommands, commandLog, capture, wsClient, pages, injected, got, owed, keysIn,
                 joinSeq, typed, handed, lastCall>>

\* a handler of the connected daemon has run: what it emitted is on its way to the relay
DaemonSent(did) ==
  /\ daemonManager' = did.daemon
  /\ injected' = injected \o did.keys
  /\ toRelay' = [toRelay EXCEPT ![daemonManager.socket] = @ \o did.out]
  /\ UNCHANGED <<pendingCommands, commandLog, capture, wsClient, pages, got, owed, keysIn,
                 joinSeq, typed, handed, lastCall>>

\* the daemon is told to attach or detach a session
DaemonCommand(msg, snapshot, nonce) ==
  /\ daemonManager.socket # NoSocket
  /\ DaemonSent(handleCommand(daemonManager, msg, snapshot, nonce, FALSE))
  /\ RelayIdle
  /\ UNCHANGED toClient

\* the daemon's socket dispatches the next message from the relay
DaemonReceive(nonce) ==
  /\ daemonManager.socket # NoSocket
  /\ toClient[daemonManager.socket] # << >>
  /\ LET m == Head(toClient[daemonManager.socket])
     IN DaemonSent(CASE m.ev = "viewer-joined" -> handleViewerJoined(daemonManager, m.data, nonce)
                     [] m.ev = "viewer-left" -> handleViewerLeft(daemonManager, m.data)
                     [] m.ev = "encrypted-input" -> handleEncryptedInput(daemonManager, m.data)
                     [] OTHER -> Did(daemonManager, << >>, << >>))
  /\ toClient' = [toClient EXCEPT ![daemonManager.socket] = Tail(@)]
  /\ RelayIdle

\* the relay dispatches the next message of the daemon connection k
RelayReceiveDaemon(k) ==
  /\ IsDaemonSocket(k)
  /\ k \in DOMAIN toRelay
  /\ toRelay[k] # << >>
  /\ LET m == Head(toRelay[k])
     IN CASE m.ev = "session-attached" ->
               SessionAttached(k, m.data) /\ UNCHANGED <<pendingCommands, commandLog>>
          [] m.ev = "session-detached" ->
               SessionDetached(k, m.data) /\ UNCHANGED <<pendingCommands, commandLog>>
          [] m.ev = "encrypted-output" ->
               DaemonEncryptedOutput(k, m.data) /\ UNCHANGED <<pendingCommands, commandLog>>
          [] m.ev = "cli-response" -> CliResponse(k, m.data)
          [] m.ev = "active-sessions" ->
               ActiveSessions(k, m.data) /\ UNCHANGED <<pendingCommands, commandLog>>
          [] OTHER -> emitted' = << >> /\ RelayNoOp /\ UNCHANGED <<pendingCommands, commandLog>>
  /\ toRelay' = [toRelay EXCEPT ![k] = Tail(@)]
  /\ toClient' = Deliver(toClient, emitted')
  /\ TrackIdle
  /\ UNCHANGED <<daemonManager, capture, wsClient, pages, injected, got, owed, keysIn, joinSeq,
                 typed, handed, lastCall>>

ReconnectNext ==
  \/ DaemonUp
  \/ DaemonDown
  \/ \E command \in {"attach-session", "detach-session"}, snapshot \in Snapshots, nonce \in Nonces :
       /\ (command = "attach-session") => daemonManager.drawn < MaxAttaches
       /\ (command # "attach-session") => snapshot = ""
       /\ \A k \in DOMAIN toRelay : IsDaemonSocket(k) => Len(toRelay[k]) < MaxQueue
       /\ \A k \in DOMAIN toClient : Len(toClient[k]) < MaxQueue
       /\ DaemonCommand([commandId |-> "cmd_1", command |-> command,
                         params |-> [name |-> EndSession]], snapshot, nonce)
  \/ \E nonce \in Nonces : DaemonReceive(nonce)
  \/ \E k \in DOMAIN toRelay : RelayReceiveDaemon(k)
  \/ \E k \in DOMAIN toRelay : IsSessionSocket(k) /\ RelayReceive(k)
  \/ \E p \in FramePages : ViewerJoin(p)
  \/ \E p \in FramePages : ViewerDrop(p)
  \/ \E p \in FramePages : ViewerReceive(p)

SpecReconnect == Init /\ [][ReconnectNext]_vars

\* C38: after the daemon's transport has reconnected and everything in flight has
\* been delivered, every session the daemon has attached is bound at the relay to
\* the daemon's connection: the session's daemonSocketId is the new connection id and
\* the session is in the activeSessions of the daemon's new record, and the viewers
\* of the session have been told cli-status{connected:true} with the session's key.
C38_ReboundAfterReconnect ==
  (Quiescent /\ daemonManager.socket # NoSocket /\ lastCall.data.again) =>
    \A name \in {daemonManager.activeSessions[i].key : i \in DOMAIN daemonManager.activeSessions} :
      /\ name \in DOMAIN sessions
      /\ objs[sessions[name]].daemonSocketId = daemonManager.socket
      /\ name \in cliDaemons[daemonManager.socket].activeSessions
      /\ \A p \in PageIds :
           (pages[p].socket \in DOMAIN objs[sessions[name]].viewers) => pages[p].isEncrypted

\* the same for the relay's bindings of a daemon that has connected once
C38_BoundOnFirstConnection ==
  (Quiescent /\ daemonManager.socket # NoSocket /\ ~lastCall.data.again) =>
    \A name \in {daemonManager.activeSessions[i].key : i \in DOMAIN daemonManager.activeSessions} :
      /\ name \in DOMAIN sessions
      /\ objs[sessions[name]].daemonSocketId = daemonManager.socket
      /\ name \in cliDaemons[daemonManager.socket].activeSessions

(* ------------------------------------------------------------------ *)
(* Control status: viewers ask for control, release it, type, come and  *)
(* go while time passes                                                 *)
(* ------------------------------------------------------------------ *)
\* requestControlBtn 'click'
ViewerRequestControl(p) ==
  /\ pages[p].socket # NoSocket
  /\ Len(toRelay[pages[p].socket]) < MaxClicks
  /\ \A k \in DOMAIN toClient : Len(toClient[k]) < MaxQueue
  /\ toRelay' = [toRelay EXCEPT ![pages[p].socket] = Append(@, Msg("request-control", Null))]
  /\ RelayIdle
  /\ UNCHANGED <<cmdVars, handed, lastCall, capture, wsClient, pages, toClient, injected, got, owed, keysIn, joinSeq, typed>>

\* releaseControlBtn 'click'
ViewerReleaseControl(p) ==
  /\ pages[p].socket # NoSocket
  /\ Len(toRelay[pages[p].socket]) < MaxClicks
  /\ \A k \in DOMAIN toClient : Len(toClient[k]) < MaxQueue
  /\ toRelay' = [toRelay EXCEPT ![pages[p].socket] = Append(@, Msg("release-control", Null))]
  /\ RelayIdle
  /\ UNCHANGED <<cmdVars, handed, lastCall, capture, wsClient, pages, toClient, injected, got, owed, keysIn, joinSeq, typed>>

StatusNext ==
  \/ \E p \in PageIds : ViewerJoin(p)
  \/ \E p \in PageIds : ViewerDrop(p)
  \/ \E p \in PageIds : ViewerReceive(p)
  \/ \E p \in PageIds : ViewerRequestControl(p)
  \/ \E p \in PageIds : ViewerReleaseControl(p)
  \/ \E p \in PageIds, nonce \in Nonces : ViewerType(p, [keys |-> "ls", type |-> "text"], nonce)
  \/ \E k \in DOMAIN toRelay : RelayReceive(k)
  \/ Tick(ControlTicks) /\ TrackIdle /\ UNCHANGED <<endVars, cmdVars>>

SpecStatus == Init /\ [][StatusNext]_vars

\* the page p once every control-status on its way to it has been handled
StatusSeen(p) ==
  LET q == toClient[pages[p].socket]
      at == {i \in DOMAIN q : q[i].ev = "control-status"}
  IN IF at = {} THEN pages[p]
     ELSE updateControlStatus(pages[p], q[CHOOSE i \in at : \A j \in at : j <= i].data)

\* C33: the relay tells the session of every change of the control lock, in the order
\* of the changes: for every connected page, the last control-status sent to it (what
\* the page shows, when none is on its way) says whether the session has a lock and
\* who holds it.  So once every control-status is delivered, controlLocked of each
\* page is (controlLock is not null) and hasControl is true exactly for the page
\* whose connection id is controlLock.holderId.
C33_StatusFollowsLock ==
  \A p \in PageIds :
    pages[p].socket # NoSocket =>
      LET lock == objs[sessions[EndSession]].controlLock
          v == StatusSeen(p)
      IN /\ v.controlLocked = (lock # Null)
         /\ v.hasControl = (lock # Null /\ lock.holderId = pages[p].socket)

\* C33 witness: nothing is in flight, two pages are connected, the lock was granted
\* after the clock had moved on, and the pages show who has it.
C33_Witness ==
  /\ Quiescent
  /\ \A p \in PageIds : pages[p].socket # NoSocket
  /\ objs[sessions[EndSession]].controlLock # Null
  /\ objs[sessions[EndSession]].controlLock.acquiredAt >= CONTROL_LOCK_TIMEOUT
  /\ \E p, q \in PageIds :
       /\ pages[p].hasControl /\ pages[p].controlLocked
       /\ ~pages[q].hasControl /\ pages[q].controlLocked

(* ------------------------------------------------------------------ *)
(* Claims about the frames                                             *)
(* ------------------------------------------------------------------ *)
\* the encrypted-output messages delivered to the connection o.viewerId that carry
\* the owed frame under the owed secret
Deliveries(o) ==
  UNION {{<<p, i>> : i \in {x \in DOMAIN got[p] :
                              /\ got[p][x].socket = o.viewerId
                              /\ got[p][x].ev = "encrypted-output"
                              /\ got[p][x].data.seq = o.event.seq
                              /\ decryptToString(got[p][x].data.encrypted, o.secret)
                                   = JSONstringify(o.event)}} : p \in PageIds}

C3_LateJoinReplay ==
  Quiescent =>
    \A p \in PageIds :
      (pages[p].socket # NoSocket /\ wsClient.socket # NoSocket /\ joinSeq[p] > 0) =>
        \E i \in DOMAIN got[p] :
          /\ got[p][i].socket = pages[p].socket
          /\ got[p][i].data.seq >= joinSeq[p]

C14_RepairedOnRebind ==
  (Quiescent /\ wsClient.run > 1 /\ wsClient.socket # NoSocket) =>
    \A p \in PageIds :
      pages[p].socket # NoSocket => MapHas(wsClient.sharedSecrets, pages[p].socket)

\* the page p is about to handle a live frame that opens under its secret, which is
\* its secret with the restarted producer, and no earlier frame it got opens under it
FirstFrameOfRestart(p) ==
  /\ wsClient.run > 1
  /\ pages[p].socket # NoSocket
  /\ pages[p].keyPair # Null
  /\ pages[p].sharedSecret =
       computeSharedSecret(pages[p].keyPair.secretKey, wsClient.keyPair.publicKey)
  /\ toClient[pages[p].socket] # << >>
  /\ LET m == Head(toClient[pages[p].socket])
     IN /\ m.ev = "encrypted-output"
        /\ decrypt(m.data.encrypted, pages[p].sharedSecret) # NoBytes
  /\ \A i \in DOMAIN got[p] :
       got[p][i].ev = "encrypted-output"
       => decrypt(got[p][i].data.encrypted, pages[p].sharedSecret) = NoBytes

\* C39: a viewer's currentSeq starts again with a new producer incarnation, so the
\* first frame a page gets from a restarted producer is rendered: handling it makes
\* the frame's seq the page's currentSeq, whatever the page rendered before.
C39_FirstFrameOfRestartRendered ==
  [][\A p \in PageIds :
       (FirstFrameOfRestart(p) /\ ViewerReceive(p))
       => pages'[p].currentSeq =
            JSONparse(decryptToString(Head(toClient[pages[p].socket]).data.encrypted,
                                      pages[p].sharedSecret)).seq
     ]_vars

\* the same for a page that has rendered nothing of an earlier incarnation
C39_FirstFrameOfFreshPage ==
  [][\A p \in PageIds :
       (FirstFrameOfRestart(p) /\ ViewerReceive(p) /\ got[p] = << >>)
       => pages'[p].currentSeq =
            JSONparse(decryptToString(Head(toClient[pages[p].socket]).data.encrypted,
                                      pages[p].sharedSecret)).seq
     ]_vars

\* C23: a shared secret the producer caches under viewerId v lives only while v is
\* a viewer of the session at the relay.  Once everything in flight has been
\* delivered and the producer is connected, every viewerId it holds a secret for
\* is in the session's viewers.
C23_SecretsOfPresentViewers ==
  (Quiescent /\ wsClient.socket # NoSocket) =>
    \A i \in DOMAIN wsClient.sharedSecrets :
      /\ EndSession \in DOMAIN sessions
      /\ wsClient.sharedSecrets[i].key \in DOMAIN objs[sessions[EndSession]].viewers

(* ------------------------------------------------------------------ *)
(* Claims about the keys                                               *)
(* ------------------------------------------------------------------ *)
\* a message that shows pane content or keystrokes to the relay
Plaintext(m) == "keys" \in DOMAIN m.data \/ "content" \in DOMAIN m.data

\* C4: in an encrypted single-session run nothing the producer emits to the relay
\* carries pane content or viewer keystrokes in plaintext.
C4_NoPlaintextFromProducer ==
  wsClient.socket # NoSocket =>
    \A i \in DOMAIN toRelay[wsClient.socket] : ~Plaintext(toRelay[wsClient.socket][i])

\* C5: a viewer of a session whose encrypted flag is set never sends a keystroke
\* as a plain input message.
C5_NoPlainInput ==
  [][\A p \in PageIds :
       LET k == pages[p].socket
       IN (/\ k # NoSocket
           /\ k \in DOMAIN toRelay'
           /\ Len(toRelay'[k]) > Len(toRelay[k])
           /\ toRelay'[k][Len(toRelay'[k])].ev = "input")
          => ~SessOf(k).encrypted]_vars

\* C6: every encrypted-input the producer decrypts and parses is injected into the
\* pane exactly once, by sendKeys for text and by sendSpecialKey for special keys.
\* Stated once nothing is in flight, for a producer that is still connected.
C6_OneInjection ==
  (Quiescent /\ wsClient.socket # NoSocket) =>
    injected = [i \in DOMAIN keysIn |-> OnDecryptedInput(keysIn[i])]

====
